---- MODULE Spec2Model ----
(***************************************************************************)
(* study-sphere: the request handlers (server routes) and the storage     *)
(* access layer (DatabaseStorage) as a state machine.                      *)
(*                                                                         *)
(* The state is the content of the database tables, the upload directory   *)
(* and the requests in flight.  A handler is cut into one action per       *)
(* database statement (each `await storage.x(...)`), so that the handlers  *)
(* of concurrent requests interleave exactly where the code awaits.  The   *)
(* synchronous code between two awaits belongs to the action of the        *)
(* statement that follows it.                                              *)
(***************************************************************************)
EXTENDS Integers, Sequences, FiniteSets, TLC

(***************************************************************************)
(* Bounds of the model.                                                    *)
(***************************************************************************)
MaxTasks == 2
MaxSessions == 2
MaxRecs == 5
MaxFiles == 2
MaxNotifs == 2

\* two requests are handled at a time
Slots == {1, 2}
Users == {"alice", "bob"}

(***************************************************************************)
(* JavaScript values.  A nullable value is <<>> (null) or <<v>>; a field   *)
(* that is undefined is absent from the DOMAIN of its object.              *)
(***************************************************************************)
None == <<>>
Some(v) == <<v>>
Has(o, k) == k \in DOMAIN o

\* { ...a, ...b }: the fields of b override those of a
Spread(a, b) ==
  [k \in DOMAIN a \cup DOMAIN b |-> IF k \in DOMAIN b THEN b[k] ELSE a[k]]

\* a parse that keeps the keys the schema does not declare
StripNothing(o, keys) == o

\* zod's z.object(): keys outside the schema are stripped
Strip(o, keys) == [k \in DOMAIN o \cap keys |-> o[k]]

Digits == [c \in {"0", "1", "2", "3", "4", "5", "6", "7", "8", "9"} |->
            CASE c = "0" -> 0 [] c = "1" -> 1 [] c = "2" -> 2 [] c = "3" -> 3
              [] c = "4" -> 4 [] c = "5" -> 5 [] c = "6" -> 6 [] c = "7" -> 7
              [] c = "8" -> 8 [] c = "9" -> 9]

Ch(s, i) == SubSeq(s, i, i)

RECURSIVE ParseDigits(_, _, _)
ParseDigits(s, i, acc) ==
  IF i > Len(s) \/ Ch(s, i) \notin DOMAIN Digits THEN acc
  ELSE ParseDigits(s, i + 1, 10 * acc + Digits[Ch(s, i)])

\* parseInt(s): an optional sign and the leading decimal digits; None is NaN
ParseInt(s) ==
  LET neg   == Len(s) > 0 /\ Ch(s, 1) = "-"
      start == IF Len(s) > 0 /\ Ch(s, 1) \in {"-", "+"} THEN 2 ELSE 1
  IN  IF start > Len(s) \/ Ch(s, start) \notin DOMAIN Digits THEN None
      ELSE LET n == ParseDigits(s, start, 0) IN Some(IF neg THEN 0 - n ELSE n)

(***************************************************************************)
(* The state.                                                              *)
(***************************************************************************)
VARIABLES
  profiles,       \* table user_profiles: a set of rows, user_id unique
  tasks,          \* table tasks: a set of rows
  nextTaskId,     \* the serial of tasks.id
  sessions,       \* table pomodoro_sessions
  nextSessionId,
  recs,           \* table study_recommendations
  nextRecId,
  files,          \* table file_uploads
  nextFileId,
  disk,           \* the names of the files in the upload directory
  nextName,       \* the source of the generated file names
  notifs,         \* table notifications
  nextNotifId,
  apiKey,         \* whether AI_INTEGRATIONS_OPENAI_API_KEY is set
  clock,          \* the server's time
  reqs,           \* the request handled in each slot
  taskOwner,      \* history: the userId every task id was inserted with
  fileOwner,      \* history: the userId every file id was inserted with
  timer,          \* the state of the pomodoro page of alice's browser
  posted          \* the bodies that page has sent to POST /api/pomodoro

profileVars == <<profiles>>
taskVars == <<tasks, nextTaskId, taskOwner>>
sessionVars == <<sessions, nextSessionId>>
recVars == <<recs, nextRecId>>
fileVars == <<files, nextFileId, fileOwner, disk, nextName>>
notifVars == <<notifs, nextNotifId>>
clientVars == <<timer, posted>>
envVars == <<apiKey, clock, timer, posted>>

vars ==
  <<profiles, tasks, nextTaskId, sessions, nextSessionId, recs, nextRecId,
    files, nextFileId, disk, nextName, notifs, nextNotifId, apiKey, clock,
    reqs, taskOwner, fileOwner, timer, posted>>

Idle ==
  [pc |-> "idle", kind |-> "none", user |-> "none", arg |-> <<>>,
   loc |-> <<>>, status |-> 0, out |-> None]

Free(s) == reqs[s].pc \in {"idle", "done"}

\* res.status(status).json(out): the handler has responded
Respond(s, kind, u, arg, status, out) ==
  reqs' = [reqs EXCEPT ![s] =
    [pc |-> "done", kind |-> kind, user |-> u, arg |-> arg,
     loc |-> <<>>, status |-> status, out |-> out]]

\* the handler awaits its next statement
Await(s, pc, kind, u, arg, loc) ==
  reqs' = [reqs EXCEPT ![s] =
    [pc |-> pc, kind |-> kind, user |-> u, arg |-> arg,
     loc |-> loc, status |-> 0, out |-> None]]

(***************************************************************************)
(* The pomodoro page of the client: the state of its component.            *)
(***************************************************************************)
\* the useState initial values of PomodoroPage
TimerInit ==
  [duration |-> 25, breakDuration |-> 5, timeLeft |-> 25 * 60,
   isRunning |-> FALSE, timerState |-> "idle"]

\* the body createSessionMutation.mutate(completed) sends; no task is
\* selected, so taskId is null
SessionBody(completed) ==
  [taskId |-> None, duration |-> timer.duration,
   breakDuration |-> timer.breakDuration, completed |-> completed]

\* a tick that records the end of a break as well
tickRecordingBreaks ==
  /\ timer.isRunning
  /\ IF timer.timeLeft <= 1
       THEN IF timer.timerState = "work"
              THEN /\ posted' = Append(posted, SessionBody(TRUE))
                   /\ timer' = [timer EXCEPT !.isRunning = FALSE,
                                             !.timerState = "break",
                                             !.timeLeft = timer.breakDuration * 60]
              ELSE /\ posted' = Append(posted, SessionBody(TRUE))
                   /\ timer' = [timer EXCEPT !.isRunning = FALSE,
                                             !.timerState = "idle",
                                             !.timeLeft = timer.duration * 60]
       ELSE /\ timer' = [timer EXCEPT !.timeLeft = @ - 1]
            /\ UNCHANGED posted

\* the interval of one second calls tick while isRunning
tick ==
  /\ timer.isRunning
  /\ IF timer.timeLeft <= 1
       THEN IF timer.timerState = "work"
              THEN /\ posted' = Append(posted, SessionBody(TRUE))
                   /\ timer' = [timer EXCEPT !.isRunning = FALSE,
                                             !.timerState = "break",
                                             !.timeLeft = timer.breakDuration * 60]
              ELSE /\ UNCHANGED posted
                   /\ timer' = [timer EXCEPT !.isRunning = FALSE,
                                             !.timerState = "idle",
                                             !.timeLeft = timer.duration * 60]
       ELSE /\ timer' = [timer EXCEPT !.timeLeft = @ - 1]
            /\ UNCHANGED posted

\* the button Start / Resume, rendered while the timer is not running
startTimer ==
  /\ ~timer.isRunning
  /\ timer' = IF timer.timerState = "idle"
                THEN [timer EXCEPT !.timerState = "work",
                                   !.timeLeft = timer.duration * 60,
                                   !.isRunning = TRUE]
                ELSE [timer EXCEPT !.isRunning = TRUE]
  /\ UNCHANGED posted

\* the button Pause, rendered while the timer is running
pauseTimer ==
  /\ timer.isRunning
  /\ timer' = [timer EXCEPT !.isRunning = FALSE]
  /\ UNCHANGED posted

resetTimer ==
  /\ timer' = [timer EXCEPT !.isRunning = FALSE, !.timerState = "idle",
                            !.timeLeft = timer.duration * 60]
  /\ UNCHANGED posted

\* the button Take Break, rendered in a paused work interval that has begun
startBreak ==
  /\ timer.timerState = "work" /\ ~timer.isRunning
  /\ timer.timeLeft < timer.duration * 60
  /\ timer' = [timer EXCEPT !.timerState = "break",
                            !.timeLeft = timer.breakDuration * 60,
                            !.isRunning = TRUE]
  /\ UNCHANGED posted

\* the select Focus (min)
setDuration(v) ==
  /\ timer' = IF timer.timerState = "idle"
                THEN [timer EXCEPT !.duration = v, !.timeLeft = v * 60]
                ELSE [timer EXCEPT !.duration = v]
  /\ UNCHANGED posted

\* the select Break (min)
setBreakDuration(v) ==
  /\ timer' = [timer EXCEPT !.breakDuration = v]
  /\ UNCHANGED posted

(***************************************************************************)
(* shared/schema.ts and the zod schemas of the routes.                     *)
(***************************************************************************)
priorityEnum == {"low", "medium", "high"}
statusEnum == {"pending", "in_progress", "completed"}

TaskKeys ==
  {"title", "description", "subject", "priority", "status", "dueDate",
   "estimatedMinutes"}

\* z.string().max(n).optional().nullable()
OptNullStr(o, k, n) == Has(o, k) => (o[k] = None \/ Len(o[k][1]) <= n)

\* z.enum(e).optional()
OptEnum(o, k, e) == Has(o, k) => (o[k] # None /\ o[k][1] \in e)

TaskFieldsOk(o) ==
  /\ Has(o, "title") => (o.title # None /\ Len(o.title[1]) \in 1..500)
  /\ OptNullStr(o, "description", 5000)
  /\ OptNullStr(o, "subject", 200)
  /\ OptEnum(o, "priority", priorityEnum)
  /\ OptEnum(o, "status", statusEnum)
  /\ Has(o, "estimatedMinutes") =>
       (o.estimatedMinutes = None \/ o.estimatedMinutes[1] \in 1..1440)

\* a schema that asks for a title and nothing more
taskCreateSchemaTitleOnly(body) == Has(body, "title") /\ body.title # None

\* taskCreateSchema.safeParse(body).success
taskCreateSchema(body) == Has(body, "title") /\ TaskFieldsOk(body)

\* taskUpdateSchema = taskCreateSchema.partial()
taskUpdateSchema(body) == TaskFieldsOk(body)

\* x || null for a string-valued field: undefined, null and "" give null
StrOrNull(o, k) ==
  IF Has(o, k) /\ o[k] # None /\ o[k][1] # "" THEN o[k] ELSE None

\* x || null for a number-valued field: undefined, null and 0 give null
NumOrNull(o, k) ==
  IF Has(o, k) /\ o[k] # None /\ o[k][1] # 0 THEN o[k] ELSE None

\* x || d for an enum-valued field
EnumOr(o, k, d) == IF Has(o, k) /\ o[k] # None THEN o[k][1] ELSE d

\* the date strings that new Date() understands
ValidDates == {"2026-01-01"}

\* data.dueDate ? new Date(data.dueDate) : null; "Invalid Date" cannot be
\* written to a timestamp column
ToDate(o) ==
  IF Has(o, "dueDate") /\ o.dueDate # None /\ o.dueDate[1] # ""
    THEN (IF o.dueDate[1] \in ValidDates THEN o.dueDate ELSE Some("Invalid Date"))
    ELSE None

(***************************************************************************)
(* server/storage.ts: tasks.                                               *)
(***************************************************************************)
\* the query without its WHERE clause
getTasksUnfiltered(userId) == tasks

getTasks(userId) == {t \in tasks : t.userId = userId}

getAllTasks == tasks

\* the row, or None (undefined) when no row has the id
getTask(id) ==
  IF \E t \in tasks : t.id = id
    THEN Some(CHOOSE t \in tasks : t.id = id)
    ELSE None

\* the row createTask inserts: id from the serial, created_at defaultNow();
\* completed_at is no column of InsertTask and stays null
NewTaskRow(data) ==
  [id |-> nextTaskId, userId |-> data.userId, title |-> data.title,
   description |-> data.description, subject |-> data.subject,
   priority |-> data.priority, status |-> data.status,
   dueDate |-> data.dueDate, estimatedMinutes |-> data.estimatedMinutes,
   completedAt |-> None, createdAt |-> clock]

createTask(data) ==
  /\ tasks' = tasks \cup {NewTaskRow(data)}
  /\ nextTaskId' = nextTaskId + 1
  /\ taskOwner' = taskOwner \cup {<<nextTaskId, data.userId>>}

\* the columns SET by updateTask: the fields of data, and the stamp
\* an update that stamps whatever it sets
UpdateDataStamped(data) == Spread(data, [completedAt |-> Some(clock)])

UpdateData(data) ==
  IF Has(data, "status") /\ data.status = Some("completed")
    THEN Spread(data, [completedAt |-> Some(clock)])
    ELSE data

\* a NOT NULL column takes the value, a nullable column the nullable
NotNullCols == {"title", "priority", "status"}

UpdatedRow(t, data) ==
  LET set == UpdateData(data)
  IN  [k \in DOMAIN t |->
        IF k \in DOMAIN set
          THEN (IF k \in NotNullCols THEN set[k][1] ELSE set[k])
          ELSE t[k]]

\* UPDATE tasks SET ... WHERE id = id RETURNING *: one statement
updateTask(id, data) ==
  tasks' = {IF t.id = id THEN UpdatedRow(t, data) ELSE t : t \in tasks}

\* what updateTask returns: the updated row, or None (undefined)
updateTaskResult(id, data) ==
  IF getTask(id) = None THEN None ELSE Some(UpdatedRow(getTask(id)[1], data))

\* a delete that takes the owner's other tasks along
deleteTaskOfOwner(id) ==
  tasks' = {t \in tasks : \A q \in tasks : q.id = id => t.userId # q.userId}

deleteTask(id) == tasks' = {t \in tasks : t.id # id}

\* of a loaded row the handlers read only whether it exists and its userId
OwnerOf(row) == IF row = None THEN None ELSE Some(row[1].userId)

(***************************************************************************)
(* Task handlers.                                                          *)
(***************************************************************************)
\* GET /api/tasks
ListTasks(s, u) ==
  /\ Free(s)
  /\ Respond(s, "listTasks", u, <<>>, 200, Some(getTasks(u)))
  /\ UNCHANGED <<profileVars, taskVars, sessionVars, recVars, fileVars,
                 notifVars, envVars>>

\* POST /api/tasks
PostTask(s, u, body) ==
  /\ Free(s)
  /\ IF ~taskCreateSchema(body)
       THEN /\ Respond(s, "postTask", u, [body |-> body], 400, None)
            /\ UNCHANGED taskVars
       ELSE LET data == Strip(body, TaskKeys)
                row  == [userId |-> u, title |-> data.title[1],
                         description |-> StrOrNull(data, "description"),
                         subject |-> StrOrNull(data, "subject"),
                         priority |-> EnumOr(data, "priority", "medium"),
                         status |-> EnumOr(data, "status", "pending"),
                         dueDate |-> ToDate(data),
                         estimatedMinutes |-> NumOrNull(data, "estimatedMinutes")]
            IN  IF row.dueDate = Some("Invalid Date")
                  THEN /\ Respond(s, "postTask", u, [body |-> body], 500, None)
                       /\ UNCHANGED taskVars
                  ELSE /\ nextTaskId <= MaxTasks
                       /\ createTask(row)
                       /\ Respond(s, "postTask", u, [body |-> body], 201,
                                  Some(NewTaskRow(row)))
  /\ UNCHANGED <<profileVars, sessionVars, recVars, fileVars, notifVars, envVars>>

\* PATCH /api/tasks/:id up to the end of `await storage.getTask(id)`
PatchTaskLoad(s, u, id, body) ==
  /\ Free(s)
  /\ LET arg == [id |-> id, body |-> body]
     IN  IF ParseInt(id) = None
           THEN Respond(s, "patchTask", u, arg, 400, None)
           ELSE Await(s, "patchTask:loaded", "patchTask", u, arg,
                      [existing |-> OwnerOf(getTask(ParseInt(id)[1]))])
  /\ UNCHANGED <<profileVars, taskVars, sessionVars, recVars, fileVars,
                 notifVars, envVars>>

\* PATCH /api/tasks/:id from the ownership check to the response
PatchTaskApply(s) ==
  LET r    == reqs[s]
      id   == ParseInt(r.arg.id)[1]
      data == Strip(r.arg.body, TaskKeys)
      upd  == IF Has(data, "dueDate") THEN Spread(data, [dueDate |-> ToDate(data)])
              ELSE data
  IN
  /\ r.pc = "patchTask:loaded"
  /\ IF r.loc.existing = None
       THEN /\ Respond(s, r.kind, r.user, r.arg, 404, None)
            /\ UNCHANGED tasks
     ELSE IF r.loc.existing[1] # r.user
       THEN /\ Respond(s, r.kind, r.user, r.arg, 403, None)
            /\ UNCHANGED tasks
     ELSE IF ~taskUpdateSchema(r.arg.body)
       THEN /\ Respond(s, r.kind, r.user, r.arg, 400, None)
            /\ UNCHANGED tasks
     ELSE IF Has(upd, "dueDate") /\ upd.dueDate = Some("Invalid Date")
       THEN /\ Respond(s, r.kind, r.user, r.arg, 500, None)
            /\ UNCHANGED tasks
     ELSE /\ updateTask(id, upd)
          /\ Respond(s, r.kind, r.user, r.arg, 200, updateTaskResult(id, upd))
  /\ UNCHANGED <<nextTaskId, taskOwner>>
  /\ UNCHANGED <<profileVars, sessionVars, recVars, fileVars, notifVars, envVars>>

\* DELETE /api/tasks/:id up to the end of `await storage.getTask(id)`
DeleteTaskLoad(s, u, id) ==
  /\ Free(s)
  /\ LET arg == [id |-> id]
     IN  IF ParseInt(id) = None
           THEN Respond(s, "deleteTask", u, arg, 400, None)
           ELSE Await(s, "deleteTask:loaded", "deleteTask", u, arg,
                      [existing |-> OwnerOf(getTask(ParseInt(id)[1]))])
  /\ UNCHANGED <<profileVars, taskVars, sessionVars, recVars, fileVars,
                 notifVars, envVars>>

\* DELETE /api/tasks/:id from the ownership check to the response
DeleteTaskApply(s) ==
  LET r == reqs[s]
  IN
  /\ r.pc = "deleteTask:loaded"
  /\ IF r.loc.existing = None
       THEN /\ Respond(s, r.kind, r.user, r.arg, 404, None)
            /\ UNCHANGED tasks
     ELSE IF r.loc.existing[1] # r.user
       THEN /\ Respond(s, r.kind, r.user, r.arg, 403, None)
            /\ UNCHANGED tasks
     ELSE /\ deleteTask(ParseInt(r.arg.id)[1])
          /\ Respond(s, r.kind, r.user, r.arg, 204, None)
  /\ UNCHANGED <<nextTaskId, taskOwner>>
  /\ UNCHANGED <<profileVars, sessionVars, recVars, fileVars, notifVars, envVars>>

(***************************************************************************)
(* server/storage.ts and the handlers: pomodoro sessions.                  *)
(***************************************************************************)
getPomodoroSessions(userId) == {p \in sessions : p.userId = userId}

getAllPomodoroSessions == sessions

\* pomodoroCreateSchema.safeParse(body).success
pomodoroCreateSchema(body) ==
  /\ Has(body, "duration") /\ body.duration \in 1..120
  /\ Has(body, "breakDuration") /\ body.breakDuration \in 1..60
  /\ Has(body, "completed") /\ body.completed \in BOOLEAN

\* if (parsed.data.taskId): undefined, null and 0 are falsy
TaskIdGiven(body) ==
  Has(body, "taskId") /\ body.taskId # None /\ body.taskId[1] # 0

\* a row that is stamped whatever the flag says
NewSessionRowStamped(data) ==
  [id |-> nextSessionId, userId |-> data.userId,
   taskId |-> IF Has(data, "taskId") THEN data.taskId ELSE None,
   duration |-> data.duration, breakDuration |-> data.breakDuration,
   completed |-> data.completed, startedAt |-> clock, endedAt |-> Some(clock)]

\* the row createPomodoroSession inserts
NewSessionRow(data) ==
  [id |-> nextSessionId, userId |-> data.userId,
   taskId |-> IF Has(data, "taskId") THEN data.taskId ELSE None,
   duration |-> data.duration, breakDuration |-> data.breakDuration,
   completed |-> data.completed, startedAt |-> clock,
   endedAt |-> IF data.completed THEN Some(clock) ELSE None]

createPomodoroSession(data) ==
  /\ sessions' = sessions \cup {NewSessionRow(data)}
  /\ nextSessionId' = nextSessionId + 1

PomodoroKeys == {"taskId", "duration", "breakDuration", "completed"}

\* GET /api/pomodoro
ListSessions(s, u) ==
  /\ Free(s)
  /\ Respond(s, "listSessions", u, <<>>, 200, Some(getPomodoroSessions(u)))
  /\ UNCHANGED <<profileVars, taskVars, sessionVars, recVars, fileVars,
                 notifVars, envVars>>

\* POST /api/pomodoro up to its first statement: without a taskId that is
\* the insert, with one it is `await storage.getTask(taskId)`
PostPomodoro(s, u, body) ==
  LET arg  == [body |-> body]
      data == Spread(Strip(body, PomodoroKeys), [userId |-> u])
  IN
  /\ Free(s)
  /\ IF ~pomodoroCreateSchema(body)
       THEN /\ Respond(s, "postPomodoro", u, arg, 400, None)
            /\ UNCHANGED sessionVars
     ELSE IF TaskIdGiven(body)
       THEN /\ Await(s, "postPomodoro:loaded", "postPomodoro", u, arg,
                     [task |-> OwnerOf(getTask(body.taskId[1]))])
            /\ UNCHANGED sessionVars
     ELSE /\ nextSessionId <= MaxSessions
          /\ createPomodoroSession(data)
          /\ Respond(s, "postPomodoro", u, arg, 201, Some(NewSessionRow(data)))
  /\ UNCHANGED <<profileVars, taskVars, recVars, fileVars, notifVars, envVars>>

\* POST /api/pomodoro from the check of the loaded task to the response
PostPomodoroApply(s) ==
  LET r    == reqs[s]
      data == Spread(Strip(r.arg.body, PomodoroKeys), [userId |-> r.user])
  IN
  /\ r.pc = "postPomodoro:loaded"
  /\ IF r.loc.task = None \/ r.loc.task[1] # r.user
       THEN /\ Respond(s, r.kind, r.user, r.arg, 403, None)
            /\ UNCHANGED sessionVars
       ELSE /\ nextSessionId <= MaxSessions
            /\ createPomodoroSession(data)
            /\ Respond(s, r.kind, r.user, r.arg, 201, Some(NewSessionRow(data)))
  /\ UNCHANGED <<profileVars, taskVars, recVars, fileVars, notifVars, envVars>>

(***************************************************************************)
(* JSON values, as JSON.parse yields them: a record tagged with its type,  *)
(* the value in a field named after the type.                              *)
(***************************************************************************)
JNull == [t |-> "null"]
JUndef == [t |-> "undefined"]
JStr(x) == [t |-> "string", str |-> x]
JNum(n) == [t |-> "number", num |-> n]
JBool(b) == [t |-> "boolean", bool |-> b]
JObj(fields) == [t |-> "object", obj |-> fields]
JArr(elems) == [t |-> "array", arr |-> elems]

\* rec.k: a property of an object; of a string, number or boolean it is
\* undefined (of null and undefined the access throws, see Throws)
Field(rec, k) ==
  IF rec.t = "object" /\ k \in DOMAIN rec.obj THEN rec.obj[k] ELSE JUndef

\* whether `rec.k` throws a TypeError
Throws(rec) == rec.t \in {"null", "undefined"}

Truthy(x) ==
  CASE x.t \in {"null", "undefined"} -> FALSE
    [] x.t = "string" -> x.str # ""
    [] x.t = "number" -> x.num # 0
    [] x.t = "boolean" -> x.bool
    [] OTHER -> TRUE

\* a || d
Or(a, d) == IF Truthy(a) THEN a ELSE d

RECURSIVE NatToString(_)
NatToString(n) ==
  LET d == CHOOSE c \in DOMAIN Digits : Digits[c] = n % 10
  IN  IF n < 10 THEN d ELSE NatToString(n \div 10) \o d

\* String(x) for a string, a number or a boolean
String(x) ==
  CASE x.t = "string" -> x.str
    [] x.t = "number" ->
         IF x.num < 0 THEN "-" \o NatToString(0 - x.num) ELSE NatToString(x.num)
    [] x.t = "boolean" -> IF x.bool THEN "true" ELSE "false"

\* s.substring(0, n)
Substring0(str, n) == IF Len(str) <= n THEN str ELSE SubSeq(str, 1, n)

\* a slice without its end
Slice0Unbounded(a, n) ==
  IF a.t = "array" THEN a.arr ELSE [i \in 1..Len(a.str) |-> JStr(Ch(a.str, i))]

\* a.slice(0, n) of an array; of a string it is a string, whose elements
\* in a for-of loop are its characters
Slice0(a, n) ==
  IF a.t = "array"
    THEN SubSeq(a.arr, 1, IF Len(a.arr) <= n THEN Len(a.arr) ELSE n)
    ELSE [i \in 1..(IF Len(a.str) <= n THEN Len(a.str) ELSE n) |-> JStr(Ch(a.str, i))]

\* whether `recommendations.slice` is a function
HasSlice(a) == a.t \in {"array", "string"}

(***************************************************************************)
(* The reply of the external model.  The text is represented by what the   *)
(* two library calls of the parsing code yield on it:                      *)
(*   json    JSON.parse(content): a JSON value, or "SyntaxError"           *)
(*   bracket content.match(/\[[\s\S]*\]/): None, or what JSON.parse yields *)
(*           on the matched text                                           *)
(* A reply of kind "throw" is a provider call that fails.                  *)
(***************************************************************************)
TextReply(json, bracket) == [kind |-> "text", json |-> json, bracket |-> bracket]
ThrowReply == [kind |-> "throw"]

SyntaxError == [t |-> "SyntaxError"]

\* lines 261-268: [ok, val]: the value of `recommendations`, or a throw
ParseContent(reply) ==
  IF reply.json # SyntaxError THEN [ok |-> TRUE, val |-> reply.json]
  ELSE IF reply.bracket = None THEN [ok |-> TRUE, val |-> JArr(<<>>)]
  ELSE IF reply.bracket[1] = SyntaxError THEN [ok |-> FALSE, val |-> JNull]
  ELSE [ok |-> TRUE, val |-> reply.bracket[1]]

\* the argument of createRecommendation for the candidate rec
Coerce(rec, userId) ==
  [userId |-> userId,
   title |-> Substring0(String(Or(Field(rec, "title"), JStr("Study Tip"))), 60),
   description |->
     Substring0(String(Or(Field(rec, "description"),
                          JStr("Keep up the great work!"))), 200),
   subject |-> IF Truthy(Field(rec, "subject"))
                 THEN Some(String(Field(rec, "subject"))) ELSE None,
   type |-> String(Or(Field(rec, "type"), JStr("study_tip"))),
   priority |-> String(Or(Field(rec, "priority"), JStr("medium"))),
   dismissed |-> FALSE]

(***************************************************************************)
(* server/storage.ts: recommendations.                                     *)
(***************************************************************************)
\* the query without its WHERE clause
getRecommendationsUnfiltered(userId) == recs

getRecommendations(userId) == {r \in recs : r.userId = userId}

NewRecRow(data) ==
  [id |-> nextRecId, userId |-> data.userId, title |-> data.title,
   description |-> data.description, subject |-> data.subject,
   type |-> data.type, priority |-> data.priority,
   dismissed |-> data.dismissed, createdAt |-> clock]

\* an insert that skips a row the user already has under the same title
createRecommendationOnce(data) ==
  /\ recs' = IF \E q \in recs : q.userId = data.userId /\ q.title = data.title
               THEN recs ELSE recs \cup {NewRecRow(data)}
  /\ nextRecId' = nextRecId + 1

createRecommendation(data) ==
  /\ recs' = recs \cup {NewRecRow(data)}
  /\ nextRecId' = nextRecId + 1

\* a dismiss that flips the flag
dismissRecommendationToggle(id) ==
  recs' = {IF r.id = id THEN [r EXCEPT !.dismissed = ~r.dismissed] ELSE r : r \in recs}

\* UPDATE study_recommendations SET dismissed = true WHERE id = id
dismissRecommendation(id) ==
  recs' = {IF r.id = id THEN [r EXCEPT !.dismissed = TRUE] ELSE r : r \in recs}

(***************************************************************************)
(* Recommendation handlers.                                                *)
(***************************************************************************)
\* GET /api/recommendations
ListRecs(s, u) ==
  /\ Free(s)
  /\ Respond(s, "listRecs", u, <<>>, 200, Some(getRecommendations(u)))
  /\ UNCHANGED <<profileVars, taskVars, sessionVars, recVars, fileVars,
                 notifVars, envVars>>

\* the handler without its credential check
GenerateStartUnchecked(s, u) ==
  /\ Free(s)
  /\ Await(s, "generate:tasks", "generate", u, <<>>, <<>>)
  /\ UNCHANGED <<profileVars, taskVars, sessionVars, recVars, fileVars,
                 notifVars, envVars>>

\* POST /api/recommendations/generate: the credential check, then
\* `await storage.getTasks(userId)`.  The rows read here and in the next
\* step are used for the text of the prompt only, which is not represented.
GenerateStart(s, u) ==
  /\ Free(s)
  /\ IF ~apiKey
       THEN Respond(s, "generate", u, <<>>, 503, None)
       ELSE Await(s, "generate:tasks", "generate", u, <<>>, <<>>)
  /\ UNCHANGED <<profileVars, taskVars, sessionVars, recVars, fileVars,
                 notifVars, envVars>>

\* `await storage.getPomodoroSessions(userId)`
GenerateSessions(s) ==
  LET r == reqs[s]
  IN
  /\ r.pc = "generate:tasks"
  /\ Await(s, "generate:sessions", r.kind, r.user, r.arg, <<>>)
  /\ UNCHANGED <<profileVars, taskVars, sessionVars, recVars, fileVars,
                 notifVars, envVars>>

\* the for-of loop is entered, or the handler responds with what it created
GenerateLoop(s, r, reply, list, created) ==
  IF Len(created) = Len(list)
    THEN Respond(s, r.kind, r.user, [reply |-> reply], 200, Some(created))
  ELSE IF Throws(list[Len(created) + 1])
    THEN Respond(s, r.kind, r.user, [reply |-> reply], 500, None)
  ELSE Await(s, "generate:insert", r.kind, r.user, [reply |-> reply],
             [list |-> list, created |-> created])

\* `await openai.chat.completions.create(...)` and the parsing of its reply
GenerateCall(s, reply) ==
  LET r == reqs[s]
      p == ParseContent(reply)
  IN
  /\ r.pc = "generate:sessions"
  /\ IF reply.kind = "throw" \/ ~p.ok \/ ~HasSlice(p.val)
       THEN Respond(s, r.kind, r.user, [reply |-> reply], 500, None)
       ELSE GenerateLoop(s, r, reply, Slice0(p.val, 4), <<>>)
  /\ UNCHANGED <<profileVars, taskVars, sessionVars, recVars, fileVars,
                 notifVars, envVars>>

\* one `await storage.createRecommendation(...)` of the loop
GenerateInsert(s) ==
  LET r    == reqs[s]
      data == Coerce(r.loc.list[Len(r.loc.created) + 1], r.user)
  IN
  /\ r.pc = "generate:insert"
  /\ createRecommendation(data)
  /\ GenerateLoop(s, r, r.arg.reply, r.loc.list,
                  Append(r.loc.created, NewRecRow(data)))
  /\ UNCHANGED <<profileVars, taskVars, sessionVars, fileVars, notifVars, envVars>>

\* PATCH /api/recommendations/:id/dismiss up to the end of
\* `await storage.getRecommendations(userId)`
DismissLoad(s, u, id) ==
  /\ Free(s)
  /\ LET arg == [id |-> id]
     IN  IF ParseInt(id) = None
           THEN Respond(s, "dismiss", u, arg, 400, None)
           ELSE Await(s, "dismiss:loaded", "dismiss", u, arg,
                      [rec |-> \E r \in getRecommendations(u) :
                                 r.id = ParseInt(id)[1]])
  /\ UNCHANGED <<profileVars, taskVars, sessionVars, recVars, fileVars,
                 notifVars, envVars>>

\* PATCH /api/recommendations/:id/dismiss from `if (!rec)` to the response
DismissApply(s) ==
  LET r == reqs[s]
  IN
  /\ r.pc = "dismiss:loaded"
  /\ IF ~r.loc.rec
       THEN /\ Respond(s, r.kind, r.user, r.arg, 404, None)
            /\ UNCHANGED recs
       ELSE /\ dismissRecommendation(ParseInt(r.arg.id)[1])
            /\ Respond(s, r.kind, r.user, r.arg, 200, Some([success |-> TRUE]))
  /\ UNCHANGED nextRecId
  /\ UNCHANGED <<profileVars, taskVars, sessionVars, fileVars, notifVars, envVars>>

(***************************************************************************)
(* server/storage.ts and the handlers: notifications.                      *)
(***************************************************************************)
getNotifications(userId) == {n \in notifs : n.userId = userId}

NewNotifRow(data) ==
  [id |-> nextNotifId, userId |-> data.userId, title |-> data.title,
   message |-> data.message,
   type |-> IF Has(data, "type") THEN data.type ELSE "info",
   read |-> IF Has(data, "read") THEN data.read ELSE FALSE,
   createdAt |-> clock]

\* storage.createNotification: no handler calls it; it is there for the
\* other subsystems of the server
createNotification(data) ==
  /\ nextNotifId <= MaxNotifs
  /\ notifs' = notifs \cup {NewNotifRow(data)}
  /\ nextNotifId' = nextNotifId + 1
  /\ UNCHANGED <<profileVars, taskVars, sessionVars, recVars, fileVars,
                 envVars, reqs>>

markNotificationRead(id) ==
  notifs' = {IF n.id = id THEN [n EXCEPT !.read = TRUE] ELSE n : n \in notifs}

\* the update without its WHERE clause
markEveryNotificationRead(userId) ==
  notifs' = {[n EXCEPT !.read = TRUE] : n \in notifs}

markAllNotificationsRead(userId) ==
  notifs' = {IF n.userId = userId THEN [n EXCEPT !.read = TRUE] ELSE n :
               n \in notifs}

\* GET /api/notifications
ListNotifs(s, u) ==
  /\ Free(s)
  /\ Respond(s, "listNotifs", u, <<>>, 200, Some(getNotifications(u)))
  /\ UNCHANGED <<profileVars, taskVars, sessionVars, recVars, fileVars,
                 notifVars, envVars>>

\* PATCH /api/notifications/:id/read up to the end of
\* `await storage.getNotifications(userId)`
ReadLoad(s, u, id) ==
  /\ Free(s)
  /\ LET arg == [id |-> id]
     IN  IF ParseInt(id) = None
           THEN Respond(s, "read", u, arg, 400, None)
           ELSE Await(s, "read:loaded", "read", u, arg,
                      [notif |-> \E n \in getNotifications(u) :
                                   n.id = ParseInt(id)[1]])
  /\ UNCHANGED <<profileVars, taskVars, sessionVars, recVars, fileVars,
                 notifVars, envVars>>

\* PATCH /api/notifications/:id/read from `if (!notif)` to the response
ReadApply(s) ==
  LET r == reqs[s]
  IN
  /\ r.pc = "read:loaded"
  /\ IF ~r.loc.notif
       THEN /\ Respond(s, r.kind, r.user, r.arg, 404, None)
            /\ UNCHANGED notifs
       ELSE /\ markNotificationRead(ParseInt(r.arg.id)[1])
            /\ Respond(s, r.kind, r.user, r.arg, 200, Some([success |-> TRUE]))
  /\ UNCHANGED nextNotifId
  /\ UNCHANGED <<profileVars, taskVars, sessionVars, recVars, fileVars, envVars>>

\* PATCH /api/notifications/read-all
ReadAll(s, u) ==
  /\ Free(s)
  /\ markAllNotificationsRead(u)
  /\ Respond(s, "readAll", u, <<>>, 200, Some([success |-> TRUE]))
  /\ UNCHANGED nextNotifId
  /\ UNCHANGED <<profileVars, taskVars, sessionVars, recVars, fileVars, envVars>>

(***************************************************************************)
(* The upload middleware (multer) and server/storage.ts: files.            *)
(***************************************************************************)
ALLOWED_MIME_TYPES ==
  {"application/pdf", "image/jpeg", "image/png", "image/gif", "text/plain",
   "application/msword",
   "application/vnd.openxmlformats-officedocument.wordprocessingml.document",
   "application/vnd.ms-excel",
   "application/vnd.openxmlformats-officedocument.spreadsheetml.sheet",
   "application/vnd.ms-powerpoint",
   "application/vnd.openxmlformats-officedocument.presentationml.presentation"}

\* limits: { fileSize: 50 * 1024 * 1024 }
FileSizeLimit == 50 * 1024 * 1024

\* a filter that lets every type through
fileFilterAny(file) == TRUE

\* fileFilter: cb(null, true) or cb(new Error("File type not allowed"))
fileFilter(file) == file.mimetype \in ALLOWED_MIME_TYPES

RECURSIVE LastDot(_, _)
LastDot(str, i) ==
  IF i = 0 THEN 0 ELSE IF Ch(str, i) = "." THEN i ELSE LastDot(str, i - 1)

\* path.extname(name): from the last dot on, "" without a dot or when the
\* only dot is the first character
ExtName(str) ==
  LET i == LastDot(str, Len(str))
  IN  IF i <= 1 THEN "" ELSE SubSeq(str, i, Len(str))

\* filename: Date.now() + "-" + Math.round(Math.random() * 1E9) + extname.
\* The time and the random number are represented by a counter: two
\* uploads get different names.
GeneratedName(file) == NatToString(nextName) \o ExtName(file.originalname)

getFiles(userId) == {f \in files : f.userId = userId}

getFile(id) ==
  IF \E f \in files : f.id = id
    THEN Some(CHOOSE f \in files : f.id = id)
    ELSE None

NewFileRow(data) ==
  [id |-> nextFileId, userId |-> data.userId, filename |-> data.filename,
   originalName |-> data.originalName, mimeType |-> data.mimeType,
   size |-> data.size, taskId |-> data.taskId, createdAt |-> clock]

createFile(data) ==
  /\ files' = files \cup {NewFileRow(data)}
  /\ nextFileId' = nextFileId + 1
  /\ fileOwner' = fileOwner \cup {<<nextFileId, data.userId>>}

deleteFile(id) == files' = {f \in files : f.id # id}

(***************************************************************************)
(* File handlers.                                                          *)
(***************************************************************************)
\* GET /api/files
ListFiles(s, u) ==
  /\ Free(s)
  /\ Respond(s, "listFiles", u, <<>>, 200, Some(getFiles(u)))
  /\ UNCHANGED <<profileVars, taskVars, sessionVars, recVars, fileVars,
                 notifVars, envVars>>

\* POST /api/files/upload, upload.single("file"): the middleware refuses
\* the file (the error goes to the error handling of the framework, not to
\* the handler) or writes it to the upload directory.  `file` is None when
\* the form has no file part; `stops` tells whether a file of exactly the
\* limit is cut off, which the middleware's sources decide.
UploadReceive(s, u, file, taskId, stops) ==
  LET arg == [file |-> file, taskId |-> taskId]
  IN
  /\ Free(s)
  /\ IF file = None
       THEN /\ Respond(s, "upload", u, arg, 400, None)
            /\ UNCHANGED <<disk, nextName>>
     ELSE IF ~fileFilter(file[1])
       THEN /\ Respond(s, "upload", u, arg, 500, None)
            /\ UNCHANGED <<disk, nextName>>
     ELSE IF file[1].size > FileSizeLimit \/ (file[1].size = FileSizeLimit /\ stops)
       THEN /\ Respond(s, "upload", u, arg, 500, None)
            /\ UNCHANGED <<disk, nextName>>
     ELSE /\ disk' = disk \cup {GeneratedName(file[1])}
          /\ nextName' = nextName + 1
          /\ Await(s, "upload:stored", "upload", u, arg,
                   [filename |-> GeneratedName(file[1])])
  /\ UNCHANGED <<files, nextFileId, fileOwner>>
  /\ UNCHANGED <<profileVars, taskVars, sessionVars, recVars, notifVars, envVars>>

\* the argument of createFile
FileData(r, taskId) ==
  [userId |-> r.user, filename |-> r.loc.filename,
   originalName |-> r.arg.file[1].originalname,
   mimeType |-> r.arg.file[1].mimetype, size |-> r.arg.file[1].size,
   taskId |-> taskId]

\* the handler of POST /api/files/upload up to its first statement: the
\* insert, or with a taskId field `await storage.getTask(taskId)`
UploadHandle(s) ==
  LET r == reqs[s]
      t == r.arg.taskId
  IN
  /\ r.pc = "upload:stored"
  /\ IF t # None /\ t[1] # ""
       THEN /\ IF ParseInt(t[1]) = None
                 THEN Respond(s, r.kind, r.user, r.arg, 400, None)
                 ELSE Await(s, "upload:loaded", r.kind, r.user, r.arg,
                            Spread(r.loc, [task |-> OwnerOf(getTask(ParseInt(t[1])[1]))]))
            /\ UNCHANGED <<files, nextFileId, fileOwner>>
       ELSE /\ nextFileId <= MaxFiles
            /\ createFile(FileData(r, None))
            /\ Respond(s, r.kind, r.user, r.arg, 201,
                       Some(NewFileRow(FileData(r, None))))
  /\ UNCHANGED <<disk, nextName>>
  /\ UNCHANGED <<profileVars, taskVars, sessionVars, recVars, notifVars, envVars>>

\* a handler that asks only whether the task exists
UploadApplyAnyTask(s) ==
  LET r      == reqs[s]
      taskId == Some(ParseInt(r.arg.taskId[1])[1])
  IN
  /\ r.pc = "upload:loaded"
  /\ IF r.loc.task = None
       THEN /\ Respond(s, r.kind, r.user, r.arg, 403, None)
            /\ UNCHANGED <<files, nextFileId, fileOwner>>
       ELSE /\ nextFileId <= MaxFiles
            /\ createFile(FileData(r, taskId))
            /\ Respond(s, r.kind, r.user, r.arg, 201,
                       Some(NewFileRow(FileData(r, taskId))))
  /\ UNCHANGED <<disk, nextName>>
  /\ UNCHANGED <<profileVars, taskVars, sessionVars, recVars, notifVars, envVars>>

\* POST /api/files/upload from the check of the loaded task to the response
UploadApply(s) ==
  LET r      == reqs[s]
      taskId == Some(ParseInt(r.arg.taskId[1])[1])
  IN
  /\ r.pc = "upload:loaded"
  /\ IF r.loc.task = None \/ r.loc.task[1] # r.user
       THEN /\ Respond(s, r.kind, r.user, r.arg, 403, None)
            /\ UNCHANGED <<files, nextFileId, fileOwner>>
       ELSE /\ nextFileId <= MaxFiles
            /\ createFile(FileData(r, taskId))
            /\ Respond(s, r.kind, r.user, r.arg, 201,
                       Some(NewFileRow(FileData(r, taskId))))
  /\ UNCHANGED <<disk, nextName>>
  /\ UNCHANGED <<profileVars, taskVars, sessionVars, recVars, notifVars, envVars>>

\* GET /api/files/:id/download up to the end of `await storage.getFile(id)`
DownloadLoad(s, u, id) ==
  /\ Free(s)
  /\ LET arg == [id |-> id]
     IN  IF ParseInt(id) = None
           THEN Respond(s, "download", u, arg, 400, None)
           ELSE Await(s, "download:loaded", "download", u, arg,
                      [file |-> getFile(ParseInt(id)[1])])
  /\ UNCHANGED <<profileVars, taskVars, sessionVars, recVars, fileVars,
                 notifVars, envVars>>

\* GET /api/files/:id/download from the ownership check to the response
DownloadApply(s) ==
  LET r == reqs[s]
      f == r.loc.file
  IN
  /\ r.pc = "download:loaded"
  /\ IF f = None THEN Respond(s, r.kind, r.user, r.arg, 404, None)
     ELSE IF f[1].userId # r.user THEN Respond(s, r.kind, r.user, r.arg, 403, None)
     ELSE IF f[1].filename \notin disk THEN Respond(s, r.kind, r.user, r.arg, 404, None)
     ELSE Respond(s, r.kind, r.user, r.arg, 200,
                  Some([disposition |-> f[1].originalName,
                        type |-> f[1].mimeType, sent |-> f[1].filename]))
  /\ UNCHANGED <<profileVars, taskVars, sessionVars, recVars, fileVars,
                 notifVars, envVars>>

\* DELETE /api/files/:id up to the end of `await storage.getFile(id)`
DeleteFileLoad(s, u, id) ==
  /\ Free(s)
  /\ LET arg == [id |-> id]
     IN  IF ParseInt(id) = None
           THEN Respond(s, "deleteFile", u, arg, 400, None)
           ELSE Await(s, "deleteFile:loaded", "deleteFile", u, arg,
                      [file |-> getFile(ParseInt(id)[1])])
  /\ UNCHANGED <<profileVars, taskVars, sessionVars, recVars, fileVars,
                 notifVars, envVars>>

\* a handler for which a missing physical file is an error
DeleteFileUnlinkStrict(s) ==
  LET r == reqs[s]
      f == r.loc.file
  IN
  /\ r.pc = "deleteFile:loaded"
  /\ IF f = None
       THEN /\ Respond(s, r.kind, r.user, r.arg, 404, None)
            /\ UNCHANGED disk
     ELSE IF f[1].userId # r.user
       THEN /\ Respond(s, r.kind, r.user, r.arg, 403, None)
            /\ UNCHANGED disk
     ELSE IF f[1].filename \notin disk
       THEN /\ Respond(s, r.kind, r.user, r.arg, 500, None)
            /\ UNCHANGED disk
     ELSE /\ disk' = disk \ {f[1].filename}
          /\ Await(s, "deleteFile:unlinked", r.kind, r.user, r.arg, r.loc)
  /\ UNCHANGED <<files, nextFileId, fileOwner, nextName>>
  /\ UNCHANGED <<profileVars, taskVars, sessionVars, recVars, notifVars, envVars>>

\* DELETE /api/files/:id from the ownership check to fs.unlinkSync
DeleteFileUnlink(s) ==
  LET r == reqs[s]
      f == r.loc.file
  IN
  /\ r.pc = "deleteFile:loaded"
  /\ IF f = None
       THEN /\ Respond(s, r.kind, r.user, r.arg, 404, None)
            /\ UNCHANGED disk
     ELSE IF f[1].userId # r.user
       THEN /\ Respond(s, r.kind, r.user, r.arg, 403, None)
            /\ UNCHANGED disk
     ELSE /\ disk' = disk \ {f[1].filename}
          /\ Await(s, "deleteFile:unlinked", r.kind, r.user, r.arg, r.loc)
  /\ UNCHANGED <<files, nextFileId, fileOwner, nextName>>
  /\ UNCHANGED <<profileVars, taskVars, sessionVars, recVars, notifVars, envVars>>

\* DELETE /api/files/:id: `await storage.deleteFile(id)` and the response
DeleteFileRow(s) ==
  LET r == reqs[s]
  IN
  /\ r.pc = "deleteFile:unlinked"
  /\ deleteFile(ParseInt(r.arg.id)[1])
  /\ Respond(s, r.kind, r.user, r.arg, 204, None)
  /\ UNCHANGED <<nextFileId, fileOwner, disk, nextName>>
  /\ UNCHANGED <<profileVars, taskVars, sessionVars, recVars, notifVars, envVars>>

(***************************************************************************)
(* server/storage.ts: profiles.  The serial id of a profile row is read by *)
(* no handler and is left out of the row.                                  *)
(***************************************************************************)
roleEnum == {"student", "admin"}

\* the column defaults of user_profiles
ProfileDefaults ==
  [role |-> "student", studyGoal |-> None, preferredSubjects |-> None,
   dailyStudyTarget |-> Some(120)]

getProfile(userId) ==
  IF \E p \in profiles : p.userId = userId
    THEN Some(CHOOSE p \in profiles : p.userId = userId)
    ELSE None

getAllProfiles == profiles

\* an upsert that replaces the row it finds
upsertProfileReplace(data) == Spread(ProfileDefaults, data)

\* INSERT ... ON CONFLICT (user_id) DO UPDATE SET { ...data } RETURNING *
upsertProfileRow(data) ==
  IF getProfile(data.userId) = None
    THEN Spread(ProfileDefaults, data)
    ELSE Spread(getProfile(data.userId)[1], data)

\* a plain INSERT on a table without the unique constraint
upsertProfileInsert(data) ==
  profiles' = profiles \cup {Spread(ProfileDefaults, data)}

upsertProfile(data) ==
  profiles' = {p \in profiles : p.userId # data.userId} \cup {upsertProfileRow(data)}

\* UPDATE user_profiles SET role = role WHERE user_id = userId RETURNING *
updateProfileRole(userId, role) ==
  profiles' = {IF p.userId = userId THEN [p EXCEPT !.role = role] ELSE p :
                 p \in profiles}

updateProfileRoleResult(userId, role) ==
  IF getProfile(userId) = None THEN None
  ELSE Some([getProfile(userId)[1] EXCEPT !.role = role])

\* the table users of the authentication provider
users ==
  {[id |-> "alice", email |-> Some("alice@example.com")],
   [id |-> "bob", email |-> None]}

\* the role of a loaded profile, None when there is no profile
RoleOf(profile) == IF profile = None THEN None ELSE Some(profile[1].role)

\* a check that refuses students only
IsAdminOrAbsent(role) == role # Some("student")

\* !(profile?.role !== "admin")
IsAdmin(role) == role = Some("admin")

\* a schema that takes any role
roleUpdateSchemaAny(body) == Has(body, "role")

\* roleUpdateSchema.safeParse(body).success
roleUpdateSchema(body) == Has(body, "role") /\ body.role \in roleEnum

(***************************************************************************)
(* Profile and admin handlers.                                             *)
(***************************************************************************)
\* GET /api/profile: `await storage.getProfile(userId)`; the handler
\* responds when there is a profile
GetProfileLoad(s, u) ==
  /\ Free(s)
  /\ IF getProfile(u) # None
       THEN Respond(s, "getProfile", u, <<>>, 200, getProfile(u))
       ELSE Await(s, "getProfile:absent", "getProfile", u, <<>>, <<>>)
  /\ UNCHANGED <<profileVars, taskVars, sessionVars, recVars, fileVars,
                 notifVars, envVars>>

\* GET /api/profile: `await storage.upsertProfile({ userId, role: "student" })`
GetProfileUpsert(s) ==
  LET r    == reqs[s]
      data == [userId |-> r.user, role |-> "student"]
  IN
  /\ r.pc = "getProfile:absent"
  /\ upsertProfile(data)
  /\ Respond(s, r.kind, r.user, r.arg, 200, Some(upsertProfileRow(data)))
  /\ UNCHANGED <<taskVars, sessionVars, recVars, fileVars, notifVars, envVars>>

\* the three admin endpoints start with `await storage.getProfile(userId)`
AdminLoad(s, u, kind, arg) ==
  /\ Free(s)
  /\ Await(s, "admin:loaded", kind, u, arg, [profile |-> RoleOf(getProfile(u))])
  /\ UNCHANGED <<profileVars, taskVars, sessionVars, recVars, fileVars,
                 notifVars, envVars>>

RECURSIVE SumDuration(_)
SumDuration(ss) ==
  IF ss = {} THEN 0
  ELSE LET p == CHOOSE p \in ss : TRUE IN p.duration + SumDuration(ss \ {p})

\* totals that count the sessions that were not completed too
StatsOfEverySession(allUsers, allTasks, allSessions) ==
  LET completedSessions == allSessions
  IN  [totalUsers |-> Cardinality(allUsers),
       totalTasks |-> Cardinality(allTasks),
       completedTasks |-> Cardinality({t \in allTasks : t.status = "completed"}),
       totalSessions |-> Cardinality(completedSessions),
       totalStudyMinutes |-> SumDuration(completedSessions),
       userActivity |->
         [u \in {x.id : x \in allUsers} |->
            [email |-> LET x == CHOOSE x \in allUsers : x.id = u
                       IN  IF x.email # None /\ x.email[1] # ""
                             THEN x.email[1] ELSE Substring0(x.id, 8),
             taskCount |-> Cardinality({t \in allTasks : t.userId = u}),
             sessionCount |->
               Cardinality({p \in completedSessions : p.userId = u})]]]

\* the body of the response of GET /api/admin/stats
Stats(allUsers, allTasks, allSessions) ==
  LET completedSessions == {p \in allSessions : p.completed}
  IN  [totalUsers |-> Cardinality(allUsers),
       totalTasks |-> Cardinality(allTasks),
       completedTasks |-> Cardinality({t \in allTasks : t.status = "completed"}),
       totalSessions |-> Cardinality(completedSessions),
       totalStudyMinutes |-> SumDuration(completedSessions),
       userActivity |->
         [u \in {x.id : x \in allUsers} |->
            [email |-> LET x == CHOOSE x \in allUsers : x.id = u
                       IN  IF x.email # None /\ x.email[1] # ""
                             THEN x.email[1] ELSE Substring0(x.id, 8),
             taskCount |-> Cardinality({t \in allTasks : t.userId = u}),
             sessionCount |->
               Cardinality({p \in completedSessions : p.userId = u})]]]

\* the role check of an admin endpoint, then `await db.select().from(users)`
AdminUsersRead(s) ==
  LET r == reqs[s]
  IN
  /\ r.pc = "admin:loaded" /\ r.kind \in {"adminStats", "adminUsers"}
  /\ IF ~IsAdmin(r.loc.profile)
       THEN Respond(s, r.kind, r.user, r.arg, 403, None)
       ELSE Await(s, "admin:users", r.kind, r.user, r.arg, [allUsers |-> users])
  /\ UNCHANGED <<profileVars, taskVars, sessionVars, recVars, fileVars,
                 notifVars, envVars>>

\* GET /api/admin/stats: `await storage.getAllTasks()`
AdminStatsTasks(s) ==
  LET r == reqs[s]
  IN
  /\ r.pc = "admin:users" /\ r.kind = "adminStats"
  /\ Await(s, "admin:tasks", r.kind, r.user, r.arg,
           Spread(r.loc, [allTasks |-> getAllTasks]))
  /\ UNCHANGED <<profileVars, taskVars, sessionVars, recVars, fileVars,
                 notifVars, envVars>>

\* GET /api/admin/stats: `await storage.getAllPomodoroSessions()` and the
\* response
AdminStatsRespond(s) ==
  LET r == reqs[s]
  IN
  /\ r.pc = "admin:tasks"
  /\ Respond(s, r.kind, r.user, r.arg, 200,
             Some(Stats(r.loc.allUsers, r.loc.allTasks, getAllPomodoroSessions)))
  /\ UNCHANGED <<profileVars, taskVars, sessionVars, recVars, fileVars,
                 notifVars, envVars>>

\* GET /api/admin/users: `await storage.getAllProfiles()` and the response
AdminUsersRespond(s) ==
  LET r == reqs[s]
      enriched ==
        {[id |-> x.id, email |-> x.email,
          role |-> IF \E p \in getAllProfiles : p.userId = x.id
                     THEN (CHOOSE p \in getAllProfiles : p.userId = x.id).role
                     ELSE "student"] : x \in r.loc.allUsers}
  IN
  /\ r.pc = "admin:users" /\ r.kind = "adminUsers"
  /\ Respond(s, r.kind, r.user, r.arg, 200, Some(enriched))
  /\ UNCHANGED <<profileVars, taskVars, sessionVars, recVars, fileVars,
                 notifVars, envVars>>

\* PATCH /api/admin/users/:userId/role: the role check, the validation of
\* the body, then `await storage.getProfile(userId)`
AdminRoleTarget(s) ==
  LET r == reqs[s]
  IN
  /\ r.pc = "admin:loaded" /\ r.kind = "adminRole"
  /\ IF ~IsAdmin(r.loc.profile)
       THEN Respond(s, r.kind, r.user, r.arg, 403, None)
     ELSE IF ~roleUpdateSchema(r.arg.body)
       THEN Respond(s, r.kind, r.user, r.arg, 400, None)
     ELSE Await(s, "admin:target", r.kind, r.user, r.arg,
                [found |-> getProfile(r.arg.userId) # None])
  /\ UNCHANGED <<profileVars, taskVars, sessionVars, recVars, fileVars,
                 notifVars, envVars>>

\* PATCH /api/admin/users/:userId/role: upsertProfile or updateProfileRole,
\* and the response
AdminRoleWrite(s) ==
  LET r      == reqs[s]
      userId == r.arg.userId
      role   == r.arg.body.role
  IN
  /\ r.pc = "admin:target"
  /\ IF ~r.loc.found
       THEN /\ upsertProfile([userId |-> userId, role |-> role])
            /\ Respond(s, r.kind, r.user, r.arg, 200,
                       Some(upsertProfileRow([userId |-> userId, role |-> role])))
       ELSE /\ updateProfileRole(userId, role)
            /\ Respond(s, r.kind, r.user, r.arg, 200,
                       updateProfileRoleResult(userId, role))
  /\ UNCHANGED <<taskVars, sessionVars, recVars, fileVars, notifVars, envVars>>

(***************************************************************************)
(* The initial state: empty tables, no request in flight.                  *)
(***************************************************************************)
\* a row of tasks and a row of pomodoro_sessions as earlier requests of the
\* user left them
SeedTask(id, u) ==
  [id |-> id, userId |-> u, title |-> "Essay", description |-> None,
   subject |-> Some("History"), priority |-> "medium", status |-> "completed",
   dueDate |-> None, estimatedMinutes |-> None, completedAt |-> Some(1),
   createdAt |-> 1]

SeedSession(id, u) ==
  [id |-> id, userId |-> u, taskId |-> None, duration |-> 25,
   breakDuration |-> 5, completed |-> TRUE, startedAt |-> 1, endedAt |-> Some(1)]

\* the tables hold the profiles ps, and n tasks and n sessions of alice
Seeded(ps, n) ==
  /\ profiles = ps
  /\ tasks = {SeedTask(i, "alice") : i \in 1..n}
  /\ nextTaskId = n + 1
  /\ taskOwner = {<<i, "alice">> : i \in 1..n}
  /\ sessions = {SeedSession(i, "alice") : i \in 1..n}
  /\ nextSessionId = n + 1
  /\ recs = {}
  /\ nextRecId = 1
  /\ files = {}
  /\ nextFileId = 1
  /\ fileOwner = {}
  /\ disk = {}
  /\ nextName = 1
  /\ notifs = {}
  /\ nextNotifId = 1
  /\ clock = 1
  /\ timer = TimerInit
  /\ posted = <<>>
  /\ reqs = [s \in Slots |-> Idle]

Init == Seeded({}, 0) /\ apiKey = TRUE

(***************************************************************************)
(* SpecTasks: one user's task requests, two of them concurrently.          *)
(***************************************************************************)
TaskIdParams == {"1", "2", "x"}

CreateBodies ==
  {[title |-> Some("Essay"), priority |-> Some("high")],
   [title |-> Some("Essay"), status |-> Some("completed")]}

PatchBodies ==
  {[status |-> Some("completed")], [status |-> Some("pending")]}

NextTasks ==
  \E s \in Slots :
       \/ \E b \in CreateBodies : PostTask(s, "alice", b)
       \/ \E id \in TaskIdParams, b \in PatchBodies : PatchTaskLoad(s, "alice", id, b)
       \/ PatchTaskApply(s)
       \/ \E id \in TaskIdParams : DeleteTaskLoad(s, "alice", id)
       \/ DeleteTaskApply(s)

SpecTasks == Init /\ [][NextTasks]_vars

Done(s, kind) == reqs[s].pc = "done" /\ reqs[s].kind = kind

SetsCompleted(body) == Has(body, "status") /\ body.status = Some("completed")

\* C2: a task created through POST /api/tasks with status=completed is
\* returned, and persisted, with a completedAt that is not null.
C2_CreatedCompletedIsStamped ==
  \A s \in Slots :
    (Done(s, "postTask") /\ reqs[s].status = 201 /\ SetsCompleted(reqs[s].arg.body))
      => /\ reqs[s].out[1].status = "completed"
         /\ reqs[s].out[1].completedAt # None

\* C3: the owner's PATCH /api/tasks/:id with status=completed that ends in
\* success answers with the task, completed and stamped, and the stored
\* task is then completed and stamped as well.
C3_PatchCompletedIsStamped ==
  \A s \in Slots :
    (Done(s, "patchTask") /\ reqs[s].status = 200 /\ SetsCompleted(reqs[s].arg.body))
      => /\ reqs[s].out # None
         /\ reqs[s].out[1].status = "completed"
         /\ reqs[s].out[1].completedAt # None

\* C3, the part that holds: the update statement that sets the status to
\* completed stamps completedAt in the same step, whenever it matches a row.
C3_StampInTheSameStep ==
  [][\A s \in Slots :
       (reqs[s].pc = "patchTask:loaded" /\ reqs'[s].pc = "done"
        /\ reqs'[s].status = 200 /\ SetsCompleted(reqs[s].arg.body))
         => \A t \in tasks' :
              t.id = ParseInt(reqs[s].arg.id)[1]
                => t.status = "completed" /\ t.completedAt # None
                   /\ reqs'[s].out = Some(t)]_vars

(***************************************************************************)
(* SpecPomodoro: two users create and delete tasks and record sessions.    *)
(***************************************************************************)
SlotUser(s) == IF s % 2 = 1 THEN "alice" ELSE "bob"

SessionTaskIds == {None, Some(0), Some(0 - 1), Some(1), Some(2)}

SessionBodies ==
  {[duration |-> 25, breakDuration |-> 5, completed |-> TRUE]}
  \cup {[taskId |-> t, duration |-> 25, breakDuration |-> 5, completed |-> c] :
          t \in SessionTaskIds, c \in {TRUE}}
  \cup {[taskId |-> Some(1), duration |-> 121, breakDuration |-> 5,
         completed |-> FALSE]}

NextPomodoro ==
  \E s \in Slots :
    \/ PostTask(s, SlotUser(s), [title |-> Some("Essay")])
    \/ DeleteTaskLoad(s, SlotUser(s), "1")
    \/ DeleteTaskApply(s)
    \/ \E b \in SessionBodies : PostPomodoro(s, SlotUser(s), b)
    \/ PostPomodoroApply(s)

SpecPomodoro == Init /\ [][NextPomodoro]_vars

\* C9: every session has no taskId or the id of a task of its own user;
\* a POST /api/pomodoro whose taskId names no task of the caller is
\* answered 403.
C9_SessionTaskOwned ==
  /\ \A p \in sessions :
       p.taskId = None \/ <<p.taskId[1], p.userId>> \in taskOwner
  /\ \A s \in Slots :
       (Done(s, "postPomodoro") /\ Has(reqs[s].arg.body, "taskId")
        /\ reqs[s].arg.body.taskId # None /\ pomodoroCreateSchema(reqs[s].arg.body)
        /\ <<reqs[s].arg.body.taskId[1], reqs[s].user>> \notin taskOwner)
         => reqs[s].status = 403

\* C9 for the taskIds other than 0, which the handler does check
C9_NonZeroTaskOwned ==
  /\ \A p \in sessions :
       p.taskId \in {None, Some(0)} \/ <<p.taskId[1], p.userId>> \in taskOwner
  /\ \A s \in Slots :
       (Done(s, "postPomodoro") /\ TaskIdGiven(reqs[s].arg.body)
        /\ pomodoroCreateSchema(reqs[s].arg.body)
        /\ <<reqs[s].arg.body.taskId[1], reqs[s].user>> \notin taskOwner)
         => reqs[s].status = 403

(***************************************************************************)
(* SpecGenerate: two users with tasks and sessions ask for                 *)
(* recommendations, with and without the credential of the model.          *)
(***************************************************************************)
MaxCands == 5

Cand(i) ==
  JObj([title |-> JStr("tip " \o NatToString(i)), description |-> JStr("advice"),
        subject |-> JNull, type |-> JStr("focus"), priority |-> JStr("high")])

Cands(k) == [i \in 1..k |-> Cand(i)]

GenReplies == {TextReply(JArr(Cands(k)), None) : k \in 0..MaxCands} \cup {ThrowReply}

InitGenerate == (\E n \in 0..1 : Seeded({}, n)) /\ apiKey \in BOOLEAN

NextGenerate ==
  \E s \in Slots :
    \/ GenerateStart(s, SlotUser(s))
    \/ GenerateSessions(s)
    \/ \E reply \in GenReplies : GenerateCall(s, reply)
    \/ nextRecId <= MaxRecs /\ GenerateInsert(s)

SpecGenerate == InitGenerate /\ [][NextGenerate]_vars

\* C5: without the credential a generate request is answered 503 at once:
\* it reaches neither the tables nor the external model, and no
\* recommendation row exists, whatever tasks and sessions the caller has.
C5_NoKeyNoRows ==
  ~apiKey =>
    /\ recs = {}
    /\ \A s \in Slots :
         reqs[s].kind = "generate" => reqs[s].pc = "done" /\ reqs[s].status = 503

C5_Witness ==
  /\ ~apiKey
  /\ tasks # {} /\ sessions # {}
  /\ \E s \in Slots : Done(s, "generate") /\ reqs[s].status = 503

Min(a, b) == IF a <= b THEN a ELSE b

\* C10: a generate request that succeeds has created min(4, n) rows for the
\* n candidates of the reply: the first ones, in order, each with a new id,
\* the caller's userId and dismissed = false; no step of a generate request
\* changes or removes a row that exists, and each adds at most one row.
C10_AtMostFourNewRows ==
  /\ [](\A s \in Slots :
          /\ reqs[s].pc = "generate:insert" => Len(reqs[s].loc.list) <= 4
          /\ (Done(s, "generate") /\ reqs[s].status = 200) =>
               LET out   == reqs[s].out[1]
                   cands == reqs[s].arg.reply.json.arr
               IN  /\ Len(out) = Min(4, Len(cands))
                   /\ \A i \in 1..Len(out) :
                        /\ out[i] \in recs
                        /\ out[i].title = cands[i].obj.title.str
                        /\ out[i].userId = reqs[s].user
                        /\ out[i].dismissed = FALSE
                        /\ \A j \in 1..Len(out) : i < j => out[i].id < out[j].id)
  /\ [][/\ recs \subseteq recs'
        /\ Cardinality(recs' \ recs) <= 1
        /\ \A r \in recs' \ recs : r.id = nextRecId]_vars

C10_Witness ==
  \E s \in Slots :
    /\ Done(s, "generate") /\ reqs[s].status = 200
    /\ Len(reqs[s].arg.reply.json.arr) = 5
    /\ Len(reqs[s].out[1]) = 4
    /\ \E r \in recs : \A i \in 1..4 : reqs[s].out[1][i] # r

(***************************************************************************)
(* SpecFlags: two users dismiss recommendations and read notifications.    *)
(***************************************************************************)
MaxFlagRecs == 2

FlagIds == {"1", "2"}

NotifData(u, read) ==
  IF read THEN [userId |-> u, title |-> "Deadline", message |-> "Essay is due",
                type |-> "deadline", read |-> TRUE]
  ELSE [userId |-> u, title |-> "Deadline", message |-> "Essay is due",
        type |-> "deadline"]

NextFlags ==
  \/ \E u \in Users, read \in BOOLEAN : createNotification(NotifData(u, read))
  \/ \E s \in Slots :
       \/ nextRecId <= MaxFlagRecs /\ GenerateStart(s, SlotUser(s))
       \/ GenerateSessions(s)
       \/ GenerateCall(s, TextReply(JArr(Cands(1)), None))
       \/ nextRecId <= MaxRecs /\ GenerateInsert(s)
       \/ \E id \in FlagIds : DismissLoad(s, SlotUser(s), id)
       \/ DismissApply(s)
       \/ \E id \in FlagIds : ReadLoad(s, SlotUser(s), id)
       \/ ReadApply(s)
       \/ ReadAll(s, SlotUser(s))

SpecFlags == Init /\ [][NextFlags]_vars

\* C4: no step takes the dismissed flag of a recommendation, or the read
\* flag of a notification, from true back to false, and no step removes
\* such a row.
C4_FlagsMonotonic ==
  [][/\ \A r \in recs : r.dismissed =>
          \E q \in recs' : q.id = r.id /\ q.dismissed
     /\ \A n \in notifs : n.read =>
          \E m \in notifs' : m.id = n.id /\ m.read]_vars

\* both users have dismissed a recommendation and generated another one
\* since, and a read notification went through a later read-all
C4_Witness ==
  /\ \E s \in Slots : Done(s, "dismiss") /\ reqs[s].status = 200
  /\ \E r \in recs : r.dismissed /\ \E q \in recs : q.id > r.id /\ ~q.dismissed
  /\ \E s \in Slots :
       /\ Done(s, "readAll")
       /\ \E n \in notifs : n.read /\ n.userId = reqs[s].user
  /\ \E n \in notifs : ~n.read

IdOf(s) == ParseInt(reqs[s].arg.id)[1]

\* C7 as claimed: dismiss and read answer 403 when the row of that id
\* belongs to another user
C7_ForeignIsForbidden ==
  \A s \in Slots :
    /\ (Done(s, "dismiss")
        /\ \E r \in recs : r.id = IdOf(s) /\ r.userId # reqs[s].user)
         => reqs[s].status = 403
    /\ (Done(s, "read")
        /\ \E n \in notifs : n.id = IdOf(s) /\ n.userId # reqs[s].user)
         => reqs[s].status = 403

\* C7 as amended: dismiss and read answer 404 both when no row has the id
\* and when the row of that id belongs to another user, and the only step
\* that changes a flag of a row is a step of a request of the row's user.
C7_ForeignIsNotFound ==
  /\ [](\A s \in Slots :
          /\ (Done(s, "dismiss")
              /\ ~\E r \in recs : r.id = IdOf(s) /\ r.userId = reqs[s].user)
               => reqs[s].status = 404
          /\ (Done(s, "read")
              /\ ~\E n \in notifs : n.id = IdOf(s) /\ n.userId = reqs[s].user)
               => reqs[s].status = 404)
  /\ [][/\ \A r \in recs : r \notin recs' =>
             \E s \in Slots : /\ reqs[s].pc = "dismiss:loaded"
                              /\ reqs[s].user = r.userId
                              /\ reqs'[s].pc = "done" /\ reqs'[s].status = 200
        /\ \A n \in notifs : n \notin notifs' =>
             \E s \in Slots : /\ reqs'[s].kind \in {"read", "readAll"}
                              /\ reqs'[s].user = n.userId
                              /\ reqs'[s].pc = "done" /\ reqs'[s].status = 200
                              /\ reqs[s].pc \in {"read:loaded", "idle", "done"}]_vars

\* bob asked to dismiss alice's recommendation and to read her notification
C7_Witness ==
  /\ \E s \in Slots :
       /\ Done(s, "dismiss") /\ reqs[s].status = 404
       /\ \E r \in recs : r.id = IdOf(s) /\ r.userId # reqs[s].user /\ ~r.dismissed
  /\ \E s \in Slots :
       /\ Done(s, "read") /\ reqs[s].status = 404
       /\ \E n \in notifs : n.id = IdOf(s) /\ n.userId # reqs[s].user /\ ~n.read

(***************************************************************************)
(* SpecFiles: two users upload, download and delete files.                 *)
(***************************************************************************)
FilePart(name, mime, size) ==
  Some([originalname |-> name, mimetype |-> mime, size |-> size])

UploadParts ==
  {None,
   FilePart("notes.txt", "text/plain", 10),
   FilePart("all.zip", "application/zip", 10),
   FilePart("scan.pdf", "application/pdf", FileSizeLimit),
   FilePart("scan.pdf", "application/pdf", FileSizeLimit + 1),
   FilePart("film.txt", "text/plain", 60 * 1024 * 1024)}

FileIds == {"1", "2"}

NextFiles ==
  \E s \in Slots :
    \/ \E f \in UploadParts, stops \in BOOLEAN :
         UploadReceive(s, SlotUser(s), f, None, stops)
    \/ UploadHandle(s)
    \/ \E id \in FileIds : DownloadLoad(s, SlotUser(s), id)
    \/ DownloadApply(s)
    \/ \E id \in FileIds : DeleteFileLoad(s, SlotUser(s), id)
    \/ DeleteFileUnlink(s)
    \/ DeleteFileRow(s)

SpecFiles == Init /\ [][NextFiles]_vars

\* C6: an upload of a type outside the allow-list, or of more than 50MB, is
\* refused; the step that refuses it leaves the file rows and the upload
\* directory as they were, and no file row has such a type or size.
BadUpload(file) ==
  file # None /\ (file[1].mimetype \notin ALLOWED_MIME_TYPES
                  \/ file[1].size > FileSizeLimit)

C6_RejectedUploadCreatesNoRow ==
  /\ [](/\ \A s \in Slots :
             (reqs[s].kind = "upload" /\ BadUpload(reqs[s].arg.file))
               => reqs[s].pc = "done" /\ reqs[s].status >= 400
        /\ \A f \in files :
             f.mimeType \in ALLOWED_MIME_TYPES /\ f.size <= FileSizeLimit)
  /\ [][\A s \in Slots :
          (reqs'[s] # reqs[s] /\ reqs'[s].kind = "upload"
           /\ BadUpload(reqs'[s].arg.file))
            => files' = files /\ disk' = disk]_vars

C6_Witness ==
  /\ files # {}
  /\ \E s \in Slots :
       /\ Done(s, "upload") /\ reqs[s].status >= 400
       /\ reqs[s].arg.file # None
       /\ reqs[s].arg.file[1].mimetype = "application/zip"
  /\ \E s \in Slots :
       /\ Done(s, "upload") /\ reqs[s].status >= 400
       /\ reqs[s].arg.file # None
       /\ reqs[s].arg.file[1].size = 60 * 1024 * 1024

(***************************************************************************)
(* SpecAdmin: alice is an admin, bob has no profile yet.                   *)
(***************************************************************************)
AdminProfile(u) ==
  [userId |-> u, role |-> "admin", studyGoal |-> Some("Pass the exam"),
   preferredSubjects |-> None, dailyStudyTarget |-> Some(120)]

InitAdmin == Seeded({AdminProfile("alice")}, 1) /\ apiKey = TRUE

RoleBodies == {[role |-> "admin"], [role |-> "student"], [role |-> "owner"]}

NextAdmin ==
  \E s \in Slots :
    \/ GetProfileLoad(s, SlotUser(s))
    \/ GetProfileUpsert(s)
    \/ AdminLoad(s, SlotUser(s), "adminStats", <<>>)
    \/ AdminLoad(s, SlotUser(s), "adminUsers", <<>>)
    \/ \E t \in Users, b \in RoleBodies :
         AdminLoad(s, SlotUser(s), "adminRole", [userId |-> t, body |-> b])
    \/ AdminUsersRead(s)
    \/ AdminStatsTasks(s)
    \/ AdminStatsRespond(s)
    \/ AdminUsersRespond(s)
    \/ AdminRoleTarget(s)
    \/ AdminRoleWrite(s)

SpecAdmin == InitAdmin /\ [][NextAdmin]_vars

AdminKinds == {"adminStats", "adminUsers", "adminRole"}

\* C8: an admin request loads the profile of its requester as the table
\* holds it; when that is no profile or a student's, the next step of the
\* request answers 403, and neither step changes the profiles.
C8_NonAdminIsForbidden ==
  [][\A s \in Slots :
       /\ (reqs'[s] # reqs[s] /\ reqs'[s].pc = "admin:loaded")
            => /\ reqs'[s].loc.profile = RoleOf(getProfile(reqs'[s].user))
               /\ profiles' = profiles
       /\ (reqs'[s] # reqs[s] /\ reqs[s].pc = "admin:loaded"
           /\ reqs[s].loc.profile \in {None, Some("student")})
            => /\ reqs'[s].pc = "done" /\ reqs'[s].status = 403
               /\ profiles' = profiles]_vars

\* bob, who has no profile, asked to be made admin with a valid body, and
\* alice, after her demotion to student, asked for the stats
C8_Witness ==
  /\ \E s \in Slots :
       /\ Done(s, "adminRole") /\ reqs[s].status = 403 /\ reqs[s].user = "bob"
       /\ reqs[s].arg = [userId |-> "bob", body |-> [role |-> "admin"]]
  /\ getProfile("bob") = None
  /\ \E s \in Slots :
       /\ Done(s, "adminStats") /\ reqs[s].status = 403 /\ reqs[s].user = "alice"
  /\ RoleOf(getProfile("alice")) = Some("student")

(***************************************************************************)
(* SpecOwnership: alice and bob, one request each at a time, work on the   *)
(* tasks and on the files of both.  The sessions, recommendations and      *)
(* notifications of both are in the tables from the start.  A behaviour    *)
(* uses the endpoints of the tasks or those of the files, not both: the    *)
(* two groups of handlers share no table that either writes.               *)
(***************************************************************************)
SeedRec(id, u) ==
  [id |-> id, userId |-> u, title |-> "Study Tip", description |-> "advice",
   subject |-> None, type |-> "focus", priority |-> "medium",
   dismissed |-> FALSE, createdAt |-> 1]

SeedNotif(id, u) ==
  [id |-> id, userId |-> u, title |-> "Deadline", message |-> "Essay is due",
   type |-> "deadline", read |-> FALSE, createdAt |-> 1]

InitOwnership ==
  /\ profiles = {}
  /\ tasks = {}
  /\ nextTaskId = 1
  /\ taskOwner = {}
  /\ sessions = {SeedSession(1, "alice"), SeedSession(2, "bob")}
  /\ nextSessionId = 3
  /\ recs = {SeedRec(1, "alice"), SeedRec(2, "bob")}
  /\ nextRecId = 3
  /\ files = {}
  /\ nextFileId = 1
  /\ fileOwner = {}
  /\ disk = {}
  /\ nextName = 1
  /\ notifs = {SeedNotif(1, "alice"), SeedNotif(2, "bob")}
  /\ nextNotifId = 3
  /\ apiKey = TRUE
  /\ clock = 1
  /\ timer = TimerInit
  /\ posted = <<>>
  /\ reqs = [s \in Slots |-> Idle]

TaskKinds == {"postTask", "patchTask", "deleteTask", "listTasks"}
FileKinds == {"upload", "download", "deleteFile", "listFiles"}

NoTaskRequest == nextTaskId = 1 /\ \A s \in Slots : reqs[s].kind \notin TaskKinds
NoFileRequest == nextName = 1 /\ \A s \in Slots : reqs[s].kind \notin FileKinds

OwnIds == {"1", "2"}

NextOwnership ==
  \E s \in Slots :
    \/ ListSessions(s, SlotUser(s))
    \/ ListRecs(s, SlotUser(s))
    \/ ListNotifs(s, SlotUser(s))
    \/ /\ NoFileRequest
       /\ \/ PostTask(s, SlotUser(s), [title |-> Some("Essay")])
          \/ ListTasks(s, SlotUser(s))
          \/ \E id \in OwnIds :
               PatchTaskLoad(s, SlotUser(s), id, [title |-> Some("Hacked")])
          \/ PatchTaskApply(s)
          \/ \E id \in OwnIds : DeleteTaskLoad(s, SlotUser(s), id)
          \/ DeleteTaskApply(s)
    \/ /\ NoTaskRequest
       /\ \/ UploadReceive(s, SlotUser(s), FilePart("notes.txt", "text/plain", 10),
                           None, FALSE)
          \/ UploadHandle(s)
          \/ ListFiles(s, SlotUser(s))
          \/ \E id \in OwnIds : DownloadLoad(s, SlotUser(s), id)
          \/ DownloadApply(s)
          \/ \E id \in OwnIds : DeleteFileLoad(s, SlotUser(s), id)
          \/ DeleteFileUnlink(s)
          \/ DeleteFileRow(s)

SpecOwnership == InitOwnership /\ [][NextOwnership]_vars

ListKinds == {"listTasks", "listSessions", "listRecs", "listFiles", "listNotifs"}

\* whether slot s takes the step
Steps(s) == reqs'[s] # reqs[s]

\* C1: a PATCH or DELETE of a task, or a download or DELETE of a file, that
\* names a resource inserted by another user is answered 403 or 404; a step
\* that changes or removes a task row, a file row or the physical file of a
\* row is a step of a request of the row's user; and a list holds rows of
\* the caller only.
C1_OwnResourcesOnly ==
  /\ [](\A s \in Slots :
          /\ (reqs[s].pc = "done" /\ reqs[s].kind \in {"patchTask", "deleteTask"}
              /\ ParseInt(reqs[s].arg.id) # None
              /\ \E o \in Users \ {reqs[s].user} : <<IdOf(s), o>> \in taskOwner)
               => reqs[s].status \in {403, 404}
          /\ (reqs[s].pc = "done" /\ reqs[s].kind \in {"download", "deleteFile"}
              /\ ParseInt(reqs[s].arg.id) # None
              /\ \E o \in Users \ {reqs[s].user} : <<IdOf(s), o>> \in fileOwner)
               => reqs[s].status \in {403, 404}
          /\ (reqs[s].pc = "done" /\ reqs[s].kind \in ListKinds)
               => \A row \in reqs[s].out[1] : row.userId = reqs[s].user)
  /\ [][/\ \A t \in tasks : t \notin tasks' =>
             \E s \in Slots : Steps(s) /\ reqs[s].user = t.userId
        /\ \A f \in files : (f \notin files' \/ (f.filename \in disk \ disk')) =>
             \E s \in Slots : Steps(s) /\ reqs[s].user = f.userId]_vars

\* bob asked to change and to delete a task of alice that is still stored
C1_Witness ==
  /\ \E t \in tasks : t.userId = "alice" /\ t.id = 1 /\ t.title = "Essay"
  /\ \E t \in tasks : t.userId = "bob" /\ t.title = "Hacked"
  /\ \E s \in Slots :
       /\ Done(s, "patchTask") /\ reqs[s].user = "bob" /\ reqs[s].arg.id = "1"
       /\ reqs[s].status = 403
(***************************************************************************)
(* SpecReplies: the external model answers with texts of every shape the   *)
(* parsing code tells apart, and with candidates whose fields are missing, *)
(* of another type, too long or outside the enumerations.                  *)
(***************************************************************************)
RECURSIVE Times(_, _)
Times(str, n) == IF n = 0 THEN "" ELSE str \o Times(str, n - 1)

LongTitle == Times("0123456789", 7)
LongDescription == Times("0123456789", 21)

OddCand ==
  JObj([title |-> JStr(LongTitle), description |-> JStr(LongDescription),
        type |-> JStr("banana"), priority |-> JStr("urgent")])

BareCand == JObj([title |-> JNum(7), subject |-> JStr("maths")])

ShapeReplies ==
  { TextReply(JArr(<<Cand(1)>>), None),                      \* [{...}]
    TextReply(SyntaxError, None),                            \* Sorry, no tips.
    TextReply(SyntaxError, Some(JArr(<<Cand(1), Cand(2)>>))),\* Here: [{...},{...}]
    TextReply(SyntaxError, Some(SyntaxError)),               \* Try [focus, review]
    TextReply(JObj([tips |-> JNull]), None),                 \* {"tips": null}
    TextReply(JNum(7), None),                                \* 7
    TextReply(JStr("no"), None),                             \* "no"
    TextReply(JArr(<<JNull>>), None),                        \* [null]
    TextReply(JArr(<<OddCand, BareCand>>), None) }

NextReplies ==
  \E s \in Slots :
    \/ GenerateStart(s, SlotUser(s))
    \/ GenerateSessions(s)
    \/ \E reply \in ShapeReplies : GenerateCall(s, reply)
    \/ nextRecId <= MaxRecs /\ GenerateInsert(s)

SpecReplies == Init /\ [][NextReplies]_vars

\* what the reply is parsed to when it is a list, None when it is not
ListOf(reply) ==
  IF reply.json # SyntaxError
    THEN (IF reply.json.t = "array" THEN Some(reply.json.arr) ELSE None)
  ELSE IF reply.bracket # None /\ reply.bracket[1] # SyntaxError
          /\ reply.bracket[1].t = "array"
    THEN Some(reply.bracket[1].arr)
  ELSE None

\* C11: whatever text the model returns, a generate request that got a text
\* succeeds; when the text yields no list (it is not JSON and has no
\* bracketed part, its bracketed part is not JSON, or what is parsed is not
\* a list) the response is an empty set and the request created no row.
C11_MalformedReplyDegradesToEmpty ==
  \A s \in Slots :
    (Done(s, "generate") /\ reqs[s].arg # <<>>) =>
      /\ reqs[s].status = 200
      /\ ListOf(reqs[s].arg.reply) = None => reqs[s].out = Some(<<>>)

\* C11, the part that holds: a text that is JSON for a list of objects, or
\* prose around such a list, or prose without brackets, is answered 200
\* with the rows of the list's first four candidates.
C11_ListRepliesSucceed ==
  \A s \in Slots :
    (/\ Done(s, "generate") /\ reqs[s].arg # <<>>
     /\ \/ ListOf(reqs[s].arg.reply) # None
           /\ \A i \in DOMAIN ListOf(reqs[s].arg.reply)[1] :
                ListOf(reqs[s].arg.reply)[1][i].t = "object"
        \/ reqs[s].arg.reply.json = SyntaxError /\ reqs[s].arg.reply.bracket = None)
      => /\ reqs[s].status = 200
         /\ Len(reqs[s].out[1]) =
              (IF ListOf(reqs[s].arg.reply) = None THEN 0
               ELSE Min(4, Len(ListOf(reqs[s].arg.reply)[1])))

RecTypes == {"study_tip", "focus", "review", "schedule"}
RecPriorities == {"low", "medium", "high"}

\* C12: every stored recommendation has a title of at most 60 characters, a
\* description of at most 200, a type among study_tip, focus, review,
\* schedule and a priority among low, medium, high.
C12_RowsAreCoerced ==
  \A r \in recs :
    /\ Len(r.title) <= 60
    /\ Len(r.description) <= 200
    /\ r.type \in RecTypes
    /\ r.priority \in RecPriorities

\* C12, the part that holds: the lengths are bounded and a missing or falsy
\* field gets its default.
C12_LengthsAndDefaults ==
  /\ \A r \in recs : Len(r.title) <= 60 /\ Len(r.description) <= 200
  /\ \A s \in Slots :
       (Done(s, "generate") /\ reqs[s].status = 200
        /\ reqs[s].arg.reply.json = JArr(<<OddCand, BareCand>>)) =>
         LET out == reqs[s].out[1]
         IN  /\ out[1].title = SubSeq(LongTitle, 1, 60)
             /\ out[1].description = SubSeq(LongDescription, 1, 200)
             /\ out[2].title = "7"
             /\ out[2].description = "Keep up the great work!"
             /\ out[2].type = "study_tip" /\ out[2].priority = "medium"
             /\ out[2].subject = Some("maths") /\ out[1].subject = None

(***************************************************************************)
(* SpecCreators: alice and bob create tasks, sessions, recommendations and *)
(* files, and patch tasks, with payloads that name the other user as the   *)
(* owner.  A behaviour works on one of the four tables.                    *)
(***************************************************************************)
Other(u) == IF u = "alice" THEN "bob" ELSE "alice"

ForgedTask(u) == [title |-> Some("Essay"), userId |-> Other(u)]

ForgedPatch(u) == [subject |-> Some("Maths"), userId |-> Other(u)]

ForgedSession(u) ==
  [duration |-> 25, breakDuration |-> 5, completed |-> FALSE, userId |-> Other(u)]

ForgedReply(u) ==
  TextReply(JArr(<<JObj([title |-> JStr("tip"), userId |-> JStr(Other(u))])>>), None)

\* a behaviour works on one table: no request of another kind was made
Scene(kinds) ==
  /\ \A s \in Slots : reqs[s].kind \in kinds \cup {"none"}
  /\ "postTask" \notin kinds => nextTaskId = 1
  /\ "postPomodoro" \notin kinds => nextSessionId = 1
  /\ "generate" \notin kinds => nextRecId = 1
  /\ "upload" \notin kinds => nextName = 1

NextCreators ==
  \E s \in Slots :
    \/ /\ Scene({"postTask", "patchTask"})
       /\ \/ PostTask(s, SlotUser(s), ForgedTask(SlotUser(s)))
          \/ \E id \in OwnIds :
               PatchTaskLoad(s, SlotUser(s), id, ForgedPatch(SlotUser(s)))
          \/ PatchTaskApply(s)
    \/ /\ Scene({"postPomodoro"})
       /\ PostPomodoro(s, SlotUser(s), ForgedSession(SlotUser(s)))
    \/ /\ Scene({"generate"})
       /\ \/ GenerateStart(s, SlotUser(s))
          \/ GenerateSessions(s)
          \/ GenerateCall(s, ForgedReply(reqs[s].user))
          \/ nextRecId <= MaxRecs /\ GenerateInsert(s)
    \/ /\ Scene({"upload"})
       /\ \/ UploadReceive(s, SlotUser(s), FilePart("notes.txt", "text/plain", 10),
                           None, FALSE)
          \/ UploadHandle(s)

SpecCreators == Init /\ [][NextCreators]_vars

\* the rows of rows2 whose id names no row of rows1 with the same userId
NewOrMoved(rows1, rows2) ==
  {r \in rows2 : ~ \E q \in rows1 : q.id = r.id /\ q.userId = r.userId}

\* C13: a step gives a userId to a task, session, recommendation or file row
\* only by inserting the row, the userId is the authenticated id of the
\* request that takes the step, whatever its payload says, and the row keeps
\* it: no step changes the userId of a row that exists.
C13_UserIdIsTheCreator ==
  [][/\ \A r \in NewOrMoved(tasks, tasks') :
          /\ r.id \notin {q.id : q \in tasks}
          /\ \E s \in Slots : Steps(s) /\ reqs'[s].kind = "postTask"
                                /\ reqs'[s].user = r.userId
     /\ \A r \in NewOrMoved(sessions, sessions') :
          /\ r.id \notin {q.id : q \in sessions}
          /\ \E s \in Slots : Steps(s) /\ reqs'[s].kind = "postPomodoro"
                                /\ reqs'[s].user = r.userId
     /\ \A r \in NewOrMoved(recs, recs') :
          /\ r.id \notin {q.id : q \in recs}
          /\ \E s \in Slots : Steps(s) /\ reqs'[s].kind = "generate"
                                /\ reqs'[s].user = r.userId
     /\ \A r \in NewOrMoved(files, files') :
          /\ r.id \notin {q.id : q \in files}
          /\ \E s \in Slots : Steps(s) /\ reqs'[s].kind = "upload"
                                /\ reqs'[s].user = r.userId]_vars

\* alice and bob each own a task created with the other's id in the body;
\* alice patched hers with bob's id in the body, bob's patch was refused
C13_Witness ==
  /\ \E t \in tasks : t.userId = "alice" /\ t.subject = Some("Maths")
  /\ \E t \in tasks : t.userId = "bob"
  /\ \E s \in Slots : Done(s, "patchTask") /\ reqs[s].status = 403
  /\ \E s \in Slots : Done(s, "patchTask") /\ reqs[s].status = 200

(***************************************************************************)
(* SpecPair: alice sends generate requests from two clients at once; the   *)
(* model answers each with four valid candidates.                          *)
(***************************************************************************)
MaxPairRecs == 8

Review(i) ==
  JObj([title |-> JStr("review " \o NatToString(i)), description |-> JStr("advice"),
        subject |-> JStr("maths"), type |-> JStr("review"),
        priority |-> JStr("low")])

FourReplies ==
  {TextReply(JArr(Cands(4)), None),
   TextReply(JArr([i \in 1..4 |-> Review(i)]), None)}

NextPair ==
  \E s \in Slots :
    \/ GenerateStart(s, "alice")
    \/ GenerateSessions(s)
    \/ \E reply \in FourReplies : GenerateCall(s, reply)
    \/ nextRecId <= MaxPairRecs /\ GenerateInsert(s)

SpecPair == Init /\ [][NextPair]_vars

\* the ids of the rows a response lists
OutIds(s) == {reqs[s].out[1][i].id : i \in DOMAIN reqs[s].out[1]}

\* C14: with four valid candidates per reply no generate request of the
\* user fails; a response lists four rows, all stored, which are the
\* candidates of its own reply in order; two responses share no row; no
\* stored row is lost; and when two requests have completed the table holds
\* eight rows, the four of each.
C14_TwoIndependentSets ==
  /\ Cardinality(recs) = nextRecId - 1
  /\ \A s \in Slots :
       Done(s, "generate") =>
         /\ reqs[s].status = 200
         /\ Len(reqs[s].out[1]) = 4
         /\ Cardinality(OutIds(s)) = 4
         /\ \A i \in 1..4 :
              /\ reqs[s].out[1][i] \in recs
              /\ reqs[s].out[1][i].userId = "alice"
              /\ reqs[s].out[1][i].title = reqs[s].arg.reply.json.arr[i].obj.title.str
  /\ \A s1, s2 \in Slots :
       (s1 # s2 /\ Done(s1, "generate") /\ Done(s2, "generate")) =>
         /\ OutIds(s1) \cap OutIds(s2) = {}
         /\ {r.id : r \in recs} = OutIds(s1) \cup OutIds(s2)
         /\ Cardinality(recs) = 8

\* two requests that got the same four candidates have completed and their
\* inserts alternated
C14_Witness ==
  /\ Done(1, "generate") /\ Done(2, "generate")
  /\ reqs[1].arg.reply = reqs[2].arg.reply
  /\ OutIds(1) = {1, 3, 5, 7}
  /\ OutIds(2) = {2, 4, 6, 8}

(***************************************************************************)
(* SpecProfiles: alice, an admin, and bob, with or without a profile, read *)
(* their profiles and change roles; either may use both clients at once.   *)
(***************************************************************************)
StudentProfile(u) ==
  [userId |-> u, role |-> "student", studyGoal |-> None,
   preferredSubjects |-> Some("maths"), dailyStudyTarget |-> Some(60)]

InitProfiles ==
  /\ \E ps \in {{AdminProfile("alice")},
                {AdminProfile("alice"), StudentProfile("bob")}} : Seeded(ps, 0)
  /\ apiKey = TRUE

NextProfiles ==
  \E s \in Slots :
    \/ \E u \in Users : GetProfileLoad(s, u)
    \/ GetProfileUpsert(s)
    \/ \E u \in Users, t \in Users, b \in RoleBodies :
         AdminLoad(s, u, "adminRole", [userId |-> t, body |-> b])
    \/ AdminRoleTarget(s)
    \/ AdminRoleWrite(s)

SpecProfiles == InitProfiles /\ [][NextProfiles]_vars

ProfilesOf(u) == {p \in profiles : p.userId = u}

\* C15: no user ever has two profile rows, and a user whose GET /api/profile
\* has completed has exactly one, which is what the response carries the
\* userId of.
C15_OneProfilePerUser ==
  /\ \A u \in Users : Cardinality(ProfilesOf(u)) <= 1
  /\ \A s \in Slots :
       Done(s, "getProfile") =>
         /\ Cardinality(ProfilesOf(reqs[s].user)) = 1
         /\ reqs[s].status = 200
         /\ reqs[s].out # None /\ reqs[s].out[1].userId = reqs[s].user

\* two first GET /api/profile of bob found no profile; one has inserted the
\* row and the other is about to upsert; meanwhile alice is about to write
\* bob's role
C15_Witness ==
  \/ /\ Done(1, "getProfile") /\ reqs[1].user = "bob"
     /\ reqs[2].pc = "getProfile:absent" /\ reqs[2].user = "bob"
     /\ getProfile("bob") # None
  \/ /\ Done(1, "getProfile") /\ reqs[1].user = "bob"
     /\ reqs[2].pc = "admin:target" /\ reqs[2].arg.userId = "bob"
     /\ ~reqs[2].loc.found
     /\ getProfile("bob") # None

\* C17: the step that answers 200 to a role update with role r leaves the
\* target with exactly one profile, of role r, which the response carries;
\* a profile that existed keeps its other fields, a missing one is created;
\* a request whose role is not student or admin never gets 200, and the
\* step that answers 400 changes no profile.
C17_RoleUpdateWritesTheRole ==
  /\ [](\A s \in Slots :
          /\ (Done(s, "adminRole") /\ reqs[s].arg.body.role \notin roleEnum)
               => reqs[s].status \in {400, 403}
          /\ (Done(s, "adminRole") /\ reqs[s].status = 200)
               => /\ reqs[s].out # None
                  /\ reqs[s].out[1].userId = reqs[s].arg.userId
                  /\ reqs[s].out[1].role = reqs[s].arg.body.role)
  /\ [][\A s \in Slots, t \in Users :
          (Steps(s) /\ reqs'[s].pc = "done" /\ reqs'[s].kind = "adminRole"
           /\ reqs'[s].arg.userId = t) =>
            /\ reqs'[s].status = 200 =>
                 /\ ProfilesOf(t)' = {reqs'[s].out[1]}
                 /\ \A p \in ProfilesOf(t) :
                      reqs'[s].out[1] = [p EXCEPT !.role = reqs'[s].arg.body.role]
                 /\ ProfilesOf(t) = {} =>
                      reqs'[s].out[1] =
                        Spread(ProfileDefaults,
                               [userId |-> t, role |-> reqs'[s].arg.body.role])
                 /\ \A p \in profiles : p.userId # t => p \in profiles'
            /\ reqs'[s].status # 200 => profiles' = profiles]_vars

\* alice made bob, who had no profile, an admin, and demoted herself; a
\* request with role owner was answered 400
C17_Witness ==
  /\ RoleOf(getProfile("bob")) = Some("admin")
  /\ getProfile("bob")[1].dailyStudyTarget = Some(120)
  /\ getProfile("alice") = Some([AdminProfile("alice") EXCEPT !.role = "student"])
  /\ \E s \in Slots :
       Done(s, "adminRole") /\ reqs[s].status = 400
       /\ reqs[s].arg.body.role = "owner"
  /\ \E s \in Slots : Done(s, "adminRole") /\ reqs[s].status = 200

(***************************************************************************)
(* SpecUpsert: upsertProfile applied to every table of up to two profiles  *)
(* with every kind of input.                                               *)
(***************************************************************************)
\* a call of storage.upsertProfile(d), recorded in the slot
UpsertCall(s, d) ==
  /\ Free(s)
  /\ upsertProfile(d)
  /\ Respond(s, "upsertProfile", d.userId, d, 200, Some(upsertProfileRow(d)))
  /\ UNCHANGED <<taskVars, sessionVars, recVars, fileVars, notifVars, envVars>>

UpsertInputs ==
  UNION {{[userId |-> u],
          [userId |-> u, role |-> "student"],
          [userId |-> u, role |-> "admin"],
          [userId |-> u, studyGoal |-> Some("Pass the exam")],
          [userId |-> u, studyGoal |-> None, dailyStudyTarget |-> Some(90)],
          [userId |-> u, role |-> "admin", preferredSubjects |-> Some("physics")]}
         : u \in Users}

InitUpsert ==
  /\ \E ps \in SUBSET {AdminProfile("alice"), StudentProfile("bob")} : Seeded(ps, 0)
  /\ apiKey = TRUE

\* the calls come one after the other
NextUpsert == \E d \in UpsertInputs : UpsertCall(1, d)

SpecUpsert == InitUpsert /\ [][NextUpsert]_vars

ProfileCols ==
  {"userId", "role", "studyGoal", "preferredSubjects", "dailyStudyTarget"}

\* C16: a call upsertProfile(d) leaves a table that a second call with the
\* same d would not change; the user of d has exactly one row afterwards;
\* if the user had none the row holds the fields of d and the column
\* defaults; if the user had one the row holds the fields of d and, for
\* the columns d does not supply, the stored values; other rows are kept.
C16_UpsertIsIdempotentAndMerges ==
  [][\A s \in Slots, d \in UpsertInputs :
       (Steps(s) /\ reqs'[s].kind = "upsertProfile" /\ reqs'[s].arg = d) =>
         /\ ({p \in profiles : p.userId # d.userId} \cup {upsertProfileRow(d)})'
              = profiles'
         /\ Cardinality(ProfilesOf(d.userId)') = 1
         /\ \A new \in ProfilesOf(d.userId)' :
              /\ DOMAIN new = ProfileCols
              /\ \A k \in DOMAIN d : new[k] = d[k]
              /\ \A k \in ProfileCols \ DOMAIN d :
                   /\ ProfilesOf(d.userId) = {} => new[k] = ProfileDefaults[k]
                   /\ \A old \in ProfilesOf(d.userId) : new[k] = old[k]
         /\ \A p \in profiles : p.userId # d.userId => p \in profiles']_vars

\* alice's stored goal survived an upsert that supplied a role only, and
\* bob's row was then inserted with the defaults
C16_Witness ==
  /\ getProfile("alice") = Some([AdminProfile("alice") EXCEPT !.role = "student"])
  /\ Done(1, "upsertProfile")
  /\ reqs[1].arg = [userId |-> "bob", studyGoal |-> Some("Pass the exam")]
  /\ reqs[1].out[1].dailyStudyTarget = Some(120)
  /\ reqs[1].out[1].role = "student"
  /\ reqs[1].out[1].preferredSubjects = None

(***************************************************************************)
(* SpecCascade: alice has two tasks, a session and a file of the first     *)
(* one; she and bob delete tasks while sessions that name the first task   *)
(* are being created.                                                      *)
(***************************************************************************)
SeedFile(id, u, taskId) ==
  [id |-> id, userId |-> u, filename |-> NatToString(id) \o ".txt",
   originalName |-> "notes.txt", mimeType |-> "text/plain", size |-> 10,
   taskId |-> taskId, createdAt |-> 1]

InitCascade ==
  /\ profiles = {}
  /\ tasks = {SeedTask(1, "alice"), SeedTask(2, "alice")}
  /\ nextTaskId = 3
  /\ taskOwner = {<<1, "alice">>, <<2, "alice">>}
  /\ sessions = {[SeedSession(1, "alice") EXCEPT !.taskId = Some(1)]}
  /\ nextSessionId = 2
  /\ recs = {}
  /\ nextRecId = 1
  /\ files = {SeedFile(1, "alice", Some(1))}
  /\ nextFileId = 2
  /\ fileOwner = {<<1, "alice">>}
  /\ disk = {"1.txt"}
  /\ nextName = 2
  /\ notifs = {}
  /\ nextNotifId = 1
  /\ apiKey = TRUE
  /\ clock = 1
  /\ timer = TimerInit
  /\ posted = <<>>
  /\ reqs = [s \in Slots |-> Idle]

CascadeBodies ==
  {[taskId |-> t, duration |-> 25, breakDuration |-> 5, completed |-> c] :
     t \in {None, Some(1)}, c \in BOOLEAN}

NextCascade ==
  \E s \in Slots :
    \/ \E id \in OwnIds : DeleteTaskLoad(s, SlotUser(s), id)
    \/ DeleteTaskApply(s)
    \/ \E b \in CascadeBodies : PostPomodoro(s, SlotUser(s), b)
    \/ PostPomodoroApply(s)

SpecCascade == InitCascade /\ [][NextCascade]_vars

\* C18: the step that answers 204 to DELETE /api/tasks/:id removes the task
\* of that id and nothing else: every other task, every session and every
\* file row, and every stored file, is as before, also those whose taskId is
\* the id of the deleted task.
C18_DeleteTaskOnly ==
  [][\A s \in Slots :
       (Steps(s) /\ reqs'[s].pc = "done" /\ reqs'[s].kind = "deleteTask"
        /\ reqs'[s].status = 204) =>
         /\ tasks' = {t \in tasks : t.id # ParseInt(reqs'[s].arg.id)[1]}
         /\ sessions' = sessions
         /\ files' = files
         /\ disk' = disk]_vars

\* task 1 is deleted, task 2 is not; the session and the file that name
\* task 1 from the start, and a session created since, are still stored
C18_Witness ==
  /\ getTask(1) = None /\ getTask(2) # None
  /\ \E s \in Slots : Done(s, "deleteTask") /\ reqs[s].status = 204
  /\ \E p \in sessions : p.id = 1 /\ p.taskId = Some(1)
  /\ \E p \in sessions : p.id > 1 /\ p.taskId = Some(1)
  /\ \E f \in files : f.id = 1 /\ f.taskId = Some(1)

\* C19: a session has an endedAt exactly when it is completed, and a stored
\* session is never changed or removed, so neither field changes after the
\* insert.
C19_EndedIffCompleted ==
  /\ [](\A p \in sessions : (p.endedAt # None) <=> p.completed)
  /\ [][sessions \subseteq sessions'
        /\ \A p \in sessions' \ sessions :
             /\ p.id \notin {q.id : q \in sessions}
             /\ \E s \in Slots :
                  /\ Steps(s) /\ reqs'[s].kind = "postPomodoro"
                  /\ reqs'[s].status = 201
                  /\ p.completed = reqs'[s].arg.body.completed]_vars

\* a session posted with completed = false is stored without an endedAt
\* next to a completed one
C19_Witness ==
  /\ \E p \in sessions : ~p.completed /\ p.endedAt = None
  /\ \E p \in sessions : p.completed /\ p.endedAt # None
  /\ \E s \in Slots :
       /\ Done(s, "postPomodoro") /\ reqs[s].status = 201
       /\ ~reqs[s].arg.body.completed

(***************************************************************************)
(* SpecUnlink: alice has two file rows; the physical file of the second    *)
(* is missing.  She and bob delete files, from both clients at once.       *)
(***************************************************************************)
InitUnlink ==
  /\ profiles = {}
  /\ tasks = {}
  /\ nextTaskId = 1
  /\ taskOwner = {}
  /\ sessions = {}
  /\ nextSessionId = 1
  /\ recs = {}
  /\ nextRecId = 1
  /\ files = {SeedFile(1, "alice", None), SeedFile(2, "alice", None)}
  /\ nextFileId = 3
  /\ fileOwner = {<<1, "alice">>, <<2, "alice">>}
  /\ disk = {"1.txt"}
  /\ nextName = 3
  /\ notifs = {}
  /\ nextNotifId = 1
  /\ apiKey = TRUE
  /\ clock = 1
  /\ timer = TimerInit
  /\ posted = <<>>
  /\ reqs = [s \in Slots |-> Idle]

NextUnlink ==
  \E s \in Slots :
    \/ \E u \in Users, id \in FileIds : DeleteFileLoad(s, u, id)
    \/ DeleteFileUnlink(s)
    \/ DeleteFileRow(s)

SpecUnlink == InitUnlink /\ [][NextUnlink]_vars

\* C20: a DELETE that loaded a row of its caller goes on to the removal of
\* the physical file whether or not the file is there, and has removed it
\* before it deletes the row; the step that deletes the row answers 204 and
\* leaves neither the row nor the file; and after a 204 the row is gone.
C20_DeleteFileRemovesBoth ==
  /\ [](\A s \in Slots :
          /\ reqs[s].pc = "deleteFile:unlinked"
               => reqs[s].loc.file[1].filename \notin disk
          /\ (Done(s, "deleteFile") /\ reqs[s].status = 204)
               => getFile(IdOf(s)) = None)
  /\ [][\A s \in Slots :
          /\ (Steps(s) /\ reqs[s].pc = "deleteFile:loaded"
              /\ reqs[s].loc.file # None
              /\ reqs[s].loc.file[1].userId = reqs[s].user)
               => /\ reqs'[s].pc = "deleteFile:unlinked"
                  /\ files' = files
          /\ (Steps(s) /\ reqs[s].pc = "deleteFile:unlinked")
               => /\ reqs'[s].pc = "done" /\ reqs'[s].status = 204
                  /\ getFile(IdOf(s))' = None
                  /\ reqs[s].loc.file[1].filename \notin disk'
                  /\ disk' = disk]_vars

\* alice deleted file 1, whose physical file was there, and file 2, whose
\* physical file was missing
C20_Witness ==
  /\ \A s \in Slots : Done(s, "deleteFile") /\ reqs[s].status = 204
  /\ reqs[1].arg.id = "1" /\ reqs[2].arg.id = "2"
  /\ files = {} /\ disk = {}

(***************************************************************************)
(* SpecAttach: alice owns task 1 and bob task 2; both upload files with a  *)
(* taskId field of every kind while the tasks are being deleted.           *)
(***************************************************************************)
MaxUploads == 3

InitAttach ==
  /\ profiles = {}
  /\ tasks = {SeedTask(1, "alice"), SeedTask(2, "bob")}
  /\ nextTaskId = 3
  /\ taskOwner = {<<1, "alice">>, <<2, "bob">>}
  /\ sessions = {}
  /\ nextSessionId = 1
  /\ recs = {}
  /\ nextRecId = 1
  /\ files = {}
  /\ nextFileId = 1
  /\ fileOwner = {}
  /\ disk = {}
  /\ nextName = 1
  /\ notifs = {}
  /\ nextNotifId = 1
  /\ apiKey = TRUE
  /\ clock = 1
  /\ timer = TimerInit
  /\ posted = <<>>
  /\ reqs = [s \in Slots |-> Idle]

AttachTaskIds == {Some("1"), Some("2"), Some("0"), Some("9"), Some("x"), Some("")}

NextAttach ==
  \E s \in Slots :
    \/ /\ nextName <= MaxUploads
       /\ \E t \in AttachTaskIds :
            UploadReceive(s, SlotUser(s), FilePart("notes.txt", "text/plain", 10),
                          t, FALSE)
    \/ UploadHandle(s)
    \/ UploadApply(s)
    \/ DeleteTaskLoad(s, SlotUser(s), "1")
    \/ DeleteTaskApply(s)

SpecAttach == InitAttach /\ [][NextAttach]_vars

\* whether the upload of slot s carries a taskId field that is not empty
TaskIdSupplied(s) == reqs[s].arg.taskId # None /\ reqs[s].arg.taskId[1] # ""

\* C21: an upload whose taskId is not a number is answered 400, one whose
\* taskId names no task that its user ever owned is answered 403, and the
\* step that refuses creates no file row; a file row with a taskId names a
\* task of the row's user, and the step that inserts it follows a load that
\* found the task with the uploader as its owner.
C21_AttachOwnTaskOnly ==
  /\ [](/\ \A s \in Slots :
             (Done(s, "upload") /\ TaskIdSupplied(s)) =>
               LET n == ParseInt(reqs[s].arg.taskId[1])
               IN  /\ n = None => reqs[s].status = 400
                   /\ (n # None /\ <<n[1], reqs[s].user>> \notin taskOwner)
                        => reqs[s].status = 403
                   /\ reqs[s].status = 201 => reqs[s].out[1].taskId = n
        /\ \A f \in files :
             f.taskId # None => <<f.taskId[1], f.userId>> \in taskOwner)
  /\ [][\A s \in Slots :
          /\ (Steps(s) /\ reqs'[s].pc = "upload:loaded") =>
               reqs'[s].loc.task = OwnerOf(getTask(ParseInt(reqs'[s].arg.taskId[1])[1]))
          /\ (Steps(s) /\ Done(s, "upload")' /\ reqs'[s].status \in {400, 403})
               => files' = files
          /\ (Steps(s) /\ Done(s, "upload")' /\ reqs'[s].status = 201
              /\ TaskIdSupplied(s)')
               => /\ reqs[s].pc = "upload:loaded"
                  /\ reqs[s].loc.task = Some(reqs[s].user)]_vars

\* bob's upload for alice's task was refused and he has no file row;
\* alice's file names her task, deleted since
C21_Witness ==
  /\ Done(2, "upload") /\ reqs[2].arg.taskId = Some("1") /\ reqs[2].status = 403
  /\ \E f \in files : f.userId = "alice" /\ f.taskId = Some(1)
  /\ getTask(1) = None
  /\ \A f \in files : f.userId # "bob"

(***************************************************************************)
(* SpecNotifs: alice has two unread notifications, bob an unread and a     *)
(* read one; both mark notifications as read, one by one and all at once.  *)
(***************************************************************************)
SeededNotifs ==
  {SeedNotif(1, "alice"), SeedNotif(2, "alice"), SeedNotif(3, "bob"),
   [SeedNotif(4, "bob") EXCEPT !.read = TRUE]}

NotifIds == {"1", "2", "3", "4"}

InitNotifs ==
  /\ profiles = {}
  /\ tasks = {}
  /\ nextTaskId = 1
  /\ taskOwner = {}
  /\ sessions = {}
  /\ nextSessionId = 1
  /\ recs = {}
  /\ nextRecId = 1
  /\ files = {}
  /\ nextFileId = 1
  /\ fileOwner = {}
  /\ disk = {}
  /\ nextName = 1
  /\ notifs = SeededNotifs
  /\ nextNotifId = 5
  /\ apiKey = TRUE
  /\ clock = 1
  /\ timer = TimerInit
  /\ posted = <<>>
  /\ reqs = [s \in Slots |-> Idle]

NextNotifs ==
  \E s \in Slots :
    \/ \E id \in NotifIds : ReadLoad(s, SlotUser(s), id)
    \/ ReadApply(s)
    \/ ReadAll(s, SlotUser(s))
    \/ ListNotifs(s, SlotUser(s))

SpecNotifs == InitNotifs /\ [][NextNotifs]_vars

\* the row of notifs2 with the id of n is n with read = b
SameBut(n, notifs2, b) == [n EXCEPT !.read = b] \in notifs2

\* C22: the step of read-all leaves every notification of the caller read
\* and otherwise as it was, and every notification of another user as it
\* was; the step that answers 200 to :id/read leaves the notification of
\* that id, which is the caller's, read and otherwise as it was, and every
\* other notification as it was; neither adds or removes a row.
C22_ReadScopedToCaller ==
  [][\A s \in Slots :
       /\ (Steps(s) /\ Done(s, "readAll")') =>
            /\ {n.id : n \in notifs'} = {n.id : n \in notifs}
            /\ Cardinality(notifs') = Cardinality(notifs)
            /\ \A n \in notifs :
                 IF n.userId = reqs'[s].user THEN SameBut(n, notifs', TRUE)
                 ELSE n \in notifs'
       /\ (Steps(s) /\ Done(s, "read")' /\ reqs'[s].status = 200) =>
            /\ Cardinality(notifs') = Cardinality(notifs)
            /\ \A n \in notifs :
                 IF n.id = IdOf(s)'
                   THEN n.userId = reqs'[s].user /\ SameBut(n, notifs', TRUE)
                   ELSE n \in notifs'
       /\ (Steps(s) /\ Done(s, "read")' /\ reqs'[s].status # 200) =>
            notifs' = notifs]_vars

\* alice has read her first notification only; bob has marked all of his
C22_Witness ==
  /\ Done(1, "read") /\ reqs[1].status = 200 /\ reqs[1].arg.id = "1"
  /\ Done(2, "readAll")
  /\ notifs = {[SeedNotif(1, "alice") EXCEPT !.read = TRUE], SeedNotif(2, "alice"),
               [SeedNotif(3, "bob") EXCEPT !.read = TRUE],
               [SeedNotif(4, "bob") EXCEPT !.read = TRUE]}

(***************************************************************************)
(* SpecValidate: alice, who owns task 1, sends well-formed and malformed   *)
(* bodies to POST /api/tasks, PATCH /api/tasks/1 and POST /api/pomodoro,   *)
(* while a second connection patches task 1 for her and for bob.           *)
(***************************************************************************)
InitValidate == Seeded({}, 1) /\ apiKey = TRUE

Title500 == Times("0123456789", 50)

\* a field of a task body that the schema refuses
BadTaskFields ==
  {[title |-> Some("")], [title |-> Some(Title500 \o "x")], [title |-> None],
   [title |-> Some("Essay"), priority |-> Some("urgent")],
   [title |-> Some("Essay"), priority |-> None],
   [title |-> Some("Essay"), status |-> Some("done")],
   [title |-> Some("Essay"), estimatedMinutes |-> Some(0)],
   [title |-> Some("Essay"), estimatedMinutes |-> Some(1441)]}

\* for POST the title is required as well
BadTaskBodies == BadTaskFields \cup {[subject |-> Some("History")]}

GoodTaskBodies ==
  {[title |-> Some(Title500), estimatedMinutes |-> Some(1440)],
   [title |-> Some("E"), estimatedMinutes |-> Some(1), status |-> Some("pending")]}

BadSessionBodies ==
  {[duration |-> 0, breakDuration |-> 5, completed |-> TRUE],
   [duration |-> 121, breakDuration |-> 5, completed |-> TRUE],
   [duration |-> 25, breakDuration |-> 0, completed |-> TRUE],
   [duration |-> 25, breakDuration |-> 61, completed |-> TRUE],
   [duration |-> 25, breakDuration |-> 5],
   [taskId |-> Some(1), duration |-> 121, breakDuration |-> 61, completed |-> FALSE]}

GoodSessionBodies ==
  {[duration |-> 120, breakDuration |-> 60, completed |-> FALSE],
   [taskId |-> Some(1), duration |-> 1, breakDuration |-> 1, completed |-> TRUE]}

NextValidate ==
  \/ \E b \in BadTaskBodies \cup GoodTaskBodies : PostTask(1, "alice", b)
  \/ \E b \in BadTaskFields \cup GoodTaskBodies : PatchTaskLoad(1, "alice", "1", b)
  \/ \E b \in BadSessionBodies \cup GoodSessionBodies : PostPomodoro(1, "alice", b)
  \/ \E b \in BadTaskFields \cup {[subject |-> Some("History")]} :
       PatchTaskLoad(2, "bob", "1", b)
  \/ \E b \in GoodTaskBodies : PatchTaskLoad(2, "alice", "1", b)
  \/ \E s \in Slots : PatchTaskApply(s) \/ PostPomodoroApply(s)

SpecValidate == InitValidate /\ [][NextValidate]_vars

StoresUnchanged ==
  UNCHANGED <<profileVars, taskVars, sessionVars, recVars, fileVars, notifVars>>

\* C23: a POST /api/tasks whose title is missing, null, empty or longer
\* than 500 characters, whose priority or status is outside its enum or
\* whose estimatedMinutes is outside 1..1440, and a POST /api/pomodoro
\* whose duration is outside 1..120, whose breakDuration is outside 1..60
\* or that has no completed flag, is answered 400 in a step that changes no
\* stored state; a PATCH /api/tasks/:id with such a field changes no stored
\* state and is answered 400 when the task was loaded as the caller's.
C23_MalformedIsRejected ==
  [][\A s \in Slots :
       /\ (Steps(s) /\ Done(s, "postTask")' /\ reqs'[s].arg.body \in BadTaskBodies)
            => reqs'[s].status = 400 /\ StoresUnchanged
       /\ (Steps(s) /\ Done(s, "postPomodoro")'
           /\ reqs'[s].arg.body \in BadSessionBodies)
            => reqs'[s].status = 400 /\ StoresUnchanged
       /\ (Steps(s) /\ Done(s, "patchTask")' /\ reqs'[s].arg.body \in BadTaskFields)
            => /\ StoresUnchanged
               /\ (reqs[s].pc = "patchTask:loaded"
                   /\ reqs[s].loc.existing = Some(reqs[s].user))
                    => reqs'[s].status = 400
       /\ (Steps(s) /\ reqs'[s].pc = "done" /\ reqs'[s].status = 400)
            => StoresUnchanged]_vars

\* alice's title of 501 characters was refused while her task was being
\* patched, and no task was added
C23_Witness ==
  /\ Done(1, "postTask") /\ reqs[1].status = 400
  /\ reqs[1].arg.body = [title |-> Some(Title500 \o "x")]
  /\ reqs[2].pc = "patchTask:loaded"
  /\ tasks = {SeedTask(1, "alice")}

\* alice's session with a break of 61 minutes was refused
C23_SessionWitness ==
  /\ Done(1, "postPomodoro") /\ reqs[1].status = 400
  /\ reqs[1].arg.body = [duration |-> 25, breakDuration |-> 61, completed |-> TRUE]
  /\ sessions = {SeedSession(1, "alice")}

\* alice's PATCH of her own task with estimatedMinutes 1441 was refused
C23_PatchWitness ==
  /\ Done(1, "patchTask") /\ reqs[1].status = 400
  /\ reqs[1].arg.body = [title |-> Some("Essay"), estimatedMinutes |-> Some(1441)]
  /\ SeedTask(1, "alice") \in tasks

(***************************************************************************)
(* SpecStats: alice, an admin, asks for the platform statistics while she  *)
(* and bob create tasks and record sessions.                               *)
(***************************************************************************)
InitStats == Seeded({AdminProfile("alice")}, 0) /\ apiKey = TRUE

StatTaskBodies ==
  {[title |-> Some("Essay")], [title |-> Some("Essay"), status |-> Some("completed")]}

StatSessionBodies ==
  {[duration |-> 25, breakDuration |-> 5, completed |-> TRUE],
   [duration |-> 50, breakDuration |-> 5, completed |-> TRUE],
   [duration |-> 30, breakDuration |-> 5, completed |-> FALSE]}

NextStats ==
  \E s \in Slots :
    \/ \E b \in StatTaskBodies : PostTask(s, SlotUser(s), b)
    \/ \E b \in StatSessionBodies : PostPomodoro(s, SlotUser(s), b)
    \/ AdminLoad(s, SlotUser(s), "adminStats", <<>>)
    \/ AdminUsersRead(s)
    \/ AdminStatsTasks(s)
    \/ AdminStatsRespond(s)

SpecStats == InitStats /\ [][NextStats]_vars

CompletedSessions == {p \in sessions : p.completed}

\* the sum of the durations of the completed sessions, counted by id
RECURSIVE MinutesUpTo(_)
MinutesUpTo(n) ==
  IF n = 0 THEN 0
  ELSE MinutesUpTo(n - 1)
       + (IF \E p \in CompletedSessions : p.id = n
            THEN (CHOOSE p \in CompletedSessions : p.id = n).duration ELSE 0)

\* C24: GET /api/admin/stats changes no stored state in any of its steps;
\* it is answered 200 only to a requester loaded as admin, and when the
\* tasks it read are the stored tasks the response carries the number of
\* users, of tasks, of completed tasks, of completed sessions, the minutes
\* of the completed sessions, and for each user the number of the user's
\* tasks and of the user's completed sessions.
C24_StatsCountTheStore ==
  [][\A s \in Slots :
       /\ (Steps(s) /\ reqs'[s].kind = "adminStats") => StoresUnchanged
       /\ (Steps(s) /\ Done(s, "adminStats")' /\ reqs'[s].status = 200
           /\ reqs[s].loc.allTasks = tasks) =>
            LET out == reqs'[s].out[1]
            IN  /\ out.totalUsers = Cardinality(Users)
                /\ out.totalTasks = Cardinality(tasks)
                /\ out.completedTasks =
                     Cardinality({t \in tasks : t.status = "completed"})
                /\ out.totalSessions = Cardinality(CompletedSessions)
                /\ out.totalStudyMinutes = MinutesUpTo(nextSessionId - 1)
                /\ DOMAIN out.userActivity = Users
                /\ \A u \in Users :
                     /\ out.userActivity[u].taskCount =
                          Cardinality({t \in tasks : t.userId = u})
                     /\ out.userActivity[u].sessionCount =
                          Cardinality({p \in CompletedSessions : p.userId = u})]_vars

\* a pending task of alice and a completed one of bob, a completed session
\* of 50 minutes of alice and an abandoned one of 30 minutes of bob
C24_Witness ==
  /\ Done(1, "adminStats") /\ reqs[1].status = 200
  /\ Cardinality(tasks) = 2 /\ Cardinality(sessions) = 2
  /\ reqs[1].out[1].totalUsers = 2
  /\ reqs[1].out[1].totalTasks = 2
  /\ reqs[1].out[1].completedTasks = 1
  /\ reqs[1].out[1].totalSessions = 1
  /\ reqs[1].out[1].totalStudyMinutes = 50
  /\ reqs[1].out[1].userActivity["alice"].taskCount = 1
  /\ reqs[1].out[1].userActivity["alice"].sessionCount = 1
  /\ reqs[1].out[1].userActivity["bob"].taskCount = 1
  /\ reqs[1].out[1].userActivity["bob"].sessionCount = 0

(***************************************************************************)
(* SpecStamp: alice creates tasks and patches her task 1, which she        *)
(* completed at time 1, while time passes.                                 *)
(***************************************************************************)
MaxClock == 3

InitStamp == Seeded({}, 1) /\ apiKey = TRUE

\* the time `new Date()` reads moves on
Tick ==
  /\ clock < MaxClock
  /\ clock' = clock + 1
  /\ UNCHANGED <<profileVars, taskVars, sessionVars, recVars, fileVars,
                 notifVars, apiKey, reqs, clientVars>>

StampBodies ==
  {[status |-> Some("completed")], [status |-> Some("pending")],
   [status |-> Some("in_progress")], [title |-> Some("Notes")]}

NextStamp ==
  \/ Tick
  \/ \E s \in Slots :
       \/ \E b \in CreateBodies : PostTask(s, "alice", b)
       \/ \E b \in StampBodies : PatchTaskLoad(s, "alice", "1", b)
       \/ PatchTaskApply(s)

SpecStamp == InitStamp /\ [][NextStamp]_vars

\* C25, as the code has it: a step changes the completedAt of a stored
\* task only when it is the update of a PATCH of that task whose payload
\* sets status to completed, and then to the current time; every other
\* update, one that moves the task back to pending or in_progress or that
\* changes another field included, leaves completedAt as it was.
C25_StampOnlyWithCompleted ==
  [][\A t \in tasks, t2 \in tasks' :
       (t.id = t2.id /\ (t2.completedAt # t.completedAt \/ t2.status # t.status)) =>
         \E s \in Slots :
           /\ reqs[s].pc = "patchTask:loaded" /\ Steps(s)
           /\ IdOf(s) = t.id
           /\ Has(reqs[s].arg.body, "status")
           /\ t2.status = reqs[s].arg.body.status[1]
           /\ IF SetsCompleted(reqs[s].arg.body)
                THEN t2.completedAt = Some(clock)
                ELSE t2.completedAt = t.completedAt]_vars

\* at time 2 alice has moved task 1 back to pending: it keeps the
\* completedAt of time 1
C25_Witness ==
  /\ clock = 2
  /\ Done(1, "patchTask") /\ reqs[1].status = 200
  /\ reqs[1].arg.body = [status |-> Some("pending")]
  /\ \E t \in tasks : t.id = 1 /\ t.status = "pending" /\ t.completedAt = Some(1)

\* C25 as stated: a stored task has a completedAt exactly when its status
\* is completed.
C25_StampedIffCompleted ==
  \A t \in tasks : (t.completedAt # None) <=> (t.status = "completed")

(***************************************************************************)
(* C26 and C28 are read under SpecProfiles and SpecTasks.                  *)
(***************************************************************************)
\* C26: no step of GET /api/profile changes the role of a stored profile.
C26_GetProfileKeepsRole ==
  [][\A s \in Slots :
       (Steps(s) /\ reqs'[s].kind = "getProfile") =>
         \A p \in profiles :
           \E q \in profiles' : q.userId = p.userId /\ q.role = p.role]_vars

\* C26, the part that holds: GET /api/profile that finds a profile answers
\* with it and writes nothing.
C26_FoundProfileIsReadOnly ==
  [][\A s \in Slots :
       (Steps(s) /\ reqs'[s].kind = "getProfile" /\ Free(s)) =>
         profiles' = profiles]_vars

UploadInFlight(s) == reqs[s].pc \in {"upload:stored", "upload:loaded"}

\* C27: when no upload is between the write of its file and its response,
\* every file in the upload directory is named by a file row; an upload
\* answered 400 or 403 therefore leaves no file behind.
C27_DiskFilesHaveRows ==
  (\A s \in Slots : ~UploadInFlight(s)) =>
    \A name \in disk : \E f \in files : f.filename = name

\* C27, the part that holds: the file of an upload answered 201 is named by
\* the row the response carries.
C27_StoredFileHasItsRow ==
  [][\A s \in Slots :
       (Steps(s) /\ Done(s, "upload")' /\ reqs'[s].status = 201) =>
         /\ reqs'[s].out[1].filename = reqs[s].loc.filename
         /\ reqs'[s].out[1] \in files'
         /\ reqs[s].loc.filename \in disk']_vars

\* C28: a PATCH /api/tasks/:id answered 200 carries the updated task.
C28_PatchSuccessCarriesRecord ==
  \A s \in Slots :
    (Done(s, "patchTask") /\ reqs[s].status = 200) => reqs[s].out # None

\* C28, the part that holds: no step of a PATCH adds a task, so a deleted
\* task is not created again, and a PATCH answered 200 with a task has
\* stored the task it answers with.
C28_PatchNeverCreates ==
  [][\A s \in Slots :
       (Steps(s) /\ reqs'[s].kind = "patchTask") =>
         /\ {t.id : t \in tasks'} = {t.id : t \in tasks}
         /\ (reqs'[s].status = 200 /\ reqs'[s].out # None)
              => reqs'[s].out[1] \in tasks']_vars

(***************************************************************************)
(* SpecPartial: the model's reply is a list whose second or third element  *)
(* is null, a list of objects, or a failure of the call.                   *)
(***************************************************************************)
PartialReplies ==
  { TextReply(JArr(<<Cand(1), JNull>>), None),            \* [{...}, null]
    TextReply(JArr(<<Cand(1), Cand(2), JNull>>), None),   \* [{...}, {...}, null]
    TextReply(JArr(<<Cand(1), Cand(2)>>), None),          \* [{...}, {...}]
    ThrowReply }

NextPartial ==
  \E s \in Slots :
    \/ GenerateStart(s, SlotUser(s))
    \/ GenerateSessions(s)
    \/ \E reply \in PartialReplies : GenerateCall(s, reply)
    \/ nextRecId <= MaxRecs /\ GenerateInsert(s)

SpecPartial == Init /\ [][NextPartial]_vars

\* C29: the step that answers 500 to a generate request stores no row, and
\* the request has stored no row before it.
C29_FailureStoresNothing ==
  [][\A s \in Slots :
       (Steps(s) /\ Done(s, "generate")' /\ reqs'[s].status = 500) =>
         /\ recs' = recs
         /\ reqs[s].pc = "generate:insert" => reqs[s].loc.created = <<>>]_vars

\* C29, the part that holds: a generate request whose call to the model
\* fails is answered 500 before any insert.
C29_FailedCallStoresNothing ==
  [][\A s \in Slots :
       (Steps(s) /\ Done(s, "generate")' /\ reqs'[s].status = 500
        /\ reqs'[s].arg.reply = ThrowReply) =>
         recs' = recs /\ reqs[s].pc = "generate:sessions"]_vars

(***************************************************************************)
(* SpecTimer: the pomodoro page: the user presses its buttons and changes  *)
(* its selects while the interval ticks.                                   *)
(***************************************************************************)
MaxPosts == 2

FocusOptions == {15, 25}

BreakOptions == {3, 5}

ServerUnchanged ==
  UNCHANGED <<profileVars, taskVars, sessionVars, recVars, fileVars, notifVars,
              apiKey, clock, reqs>>

NextTimer ==
  /\ \/ tick
     \/ Len(posted) < MaxPosts /\ startTimer
     \/ pauseTimer
     \/ resetTimer
     \/ startBreak
     \/ \E v \in FocusOptions : setDuration(v)
     \/ \E v \in BreakOptions : setBreakDuration(v)
  /\ ServerUnchanged

SpecTimer == Init /\ [][NextTimer]_vars

WorkEnds == timer.isRunning /\ timer.timerState = "work" /\ timer.timeLeft = 1

\* C30: the page sends a session only in the step in which a running work
\* countdown reaches zero, one session with completed = true, and that step
\* leaves the timer stopped in state break; the tick that takes a running
\* work countdown to zero always sends it; the end of a break leaves the
\* timer stopped in state idle and sends nothing, and so do pause, reset,
\* Take Break and the selects.  A running timer is never idle.
C30_PostedOncePerWorkEnd ==
  /\ [](/\ timer.isRunning => timer.timerState # "idle"
        /\ timer.timeLeft >= 1
        /\ \A i \in 1..Len(posted) : posted[i].completed = TRUE)
  /\ [][/\ posted' # posted =>
             /\ WorkEnds
             /\ posted' = Append(posted, SessionBody(TRUE))
             /\ ~timer'.isRunning /\ timer'.timerState = "break"
             /\ timer'.timeLeft = timer.breakDuration * 60
        /\ (WorkEnds /\ timer'.timeLeft # timer.timeLeft /\ timer'.timerState # "idle")
             => Len(posted') = Len(posted) + 1
        /\ (timer.isRunning /\ timer.timerState = "break" /\ timer.timeLeft = 1
            /\ timer'.timeLeft # timer.timeLeft)
             => /\ ~timer'.isRunning /\ timer'.timerState = "idle"
                /\ posted' = posted]_vars

\* two work countdowns have reached zero: two sessions were sent and the
\* timer is stopped at the start of a break
C30_Witness ==
  /\ Len(posted) = 2
  /\ posted[2] = [taskId |-> None, duration |-> 15, breakDuration |-> 3,
                  completed |-> TRUE]
  /\ timer.timerState = "break" /\ ~timer.isRunning
  /\ timer.timeLeft = 3 * 60

====
